---------------------------- MODULE Spec2Model ----------------------------
(***************************************************************************)
(* A model of the Open3d geometry kernel (Vector3d, Point3d, Transform,    *)
(* Line, Plane, Intersection, BoundingBox).                                *)
(*                                                                         *)
(* Numbers.  The library computes in IEEE-754 doubles.  The model computes *)
(* in exact rationals <<n, d>> (d > 0, lowest terms), so rounding error is *)
(* outside the model; every comparison against a tolerance (EPSILON,       *)
(* ANGLE_EPSILON) is made exactly as the code makes it.  Math.hypot is     *)
(* modelled by an exact square root, and the inputs are drawn so that      *)
(* every length the code takes is rational.                                *)
(*                                                                         *)
(* Objects.  Mutable objects (a Transform's private array, the Point3d     *)
(* instances a BoundingBox holds) live in `heap`, a function from          *)
(* references to object values, so that aliasing is visible.               *)
(***************************************************************************)
EXTENDS Integers, Sequences, FiniteSets, TLC

VARIABLES
    pc,     \* position of the scenario: which calls have been made
    args,   \* the arguments the calls are made with
    res,    \* the values the calls returned
    heap    \* reference -> mutable object

vars == <<pc, args, res, heap>>

-----------------------------------------------------------------------------
(* Exact rational arithmetic standing in for IEEE-754 doubles.            *)

RECURSIVE Gcd(_, _)
Gcd(a, b) == IF b = 0 THEN a ELSE Gcd(b, a % b)

IAbs(i) == IF i < 0 THEN -i ELSE i

\* the rational n/d in lowest terms with a positive denominator
Q(n, d) ==
    LET g == Gcd(IAbs(n), IAbs(d))
        s == IF d < 0 THEN -1 ELSE 1
    IN  <<(s * n) \div g, (s * d) \div g>>

R(i) == <<i, 1>>

RNeg(a) == <<-a[1], a[2]>>

RAdd(a, b) ==
    IF a[2] = b[2] THEN Q(a[1] + b[1], a[2])
    ELSE LET g == Gcd(a[2], b[2])
         IN  Q(a[1] * (b[2] \div g) + b[1] * (a[2] \div g), (a[2] \div g) * b[2])

RSub(a, b) == RAdd(a, RNeg(b))

RMul(a, b) ==
    IF a[1] = 0 \/ b[1] = 0 THEN <<0, 1>>
    ELSE LET g1 == Gcd(IAbs(a[1]), b[2])
             g2 == Gcd(IAbs(b[1]), a[2])
         IN  Q((a[1] \div g1) * (b[1] \div g2), (a[2] \div g2) * (b[2] \div g1))

\* 1 / a, for a # 0
RInv(a) == IF a[1] < 0 THEN <<-a[2], -a[1]>> ELSE <<a[2], a[1]>>

RDiv(a, b) == RMul(a, RInv(b))

RAbs(a) == <<IAbs(a[1]), a[2]>>

\* a < b, by comparing continued-fraction expansions (no products)
RECURSIVE RLess(_, _)
RLess(a, b) ==
    LET fa == a[1] \div a[2]
        fb == b[1] \div b[2]
        ra == a[1] % a[2]
        rb == b[1] % b[2]
    IN  IF fa # fb THEN fa < fb
        ELSE IF rb = 0 THEN FALSE
        ELSE IF ra = 0 THEN TRUE
        ELSE RLess(<<b[2], rb>>, <<a[2], ra>>)

RLeq(a, b) == ~RLess(b, a)

RMin(a, b) == IF RLess(b, a) THEN b ELSE a
RMax(a, b) == IF RLess(a, b) THEN b ELSE a

RZero == R(0)
ROne == R(1)

\* the exact square root of a rational that is a perfect square
ISqrt(n) == CHOOSE k \in 0..n : k * k = n
IsSquare(n) == \E k \in 0..n : k * k = n
RSqrt(a) == <<ISqrt(a[1]), ISqrt(a[2])>>

-----------------------------------------------------------------------------
(* Values shared by every component.                                       *)

\* what a call produced: nothing yet, null, a thrown Error, or a value
None == [kind |-> "none"]
Null == [kind |-> "null"]
Thrown == [kind |-> "throw"]
Ok(v) == [kind |-> "value", v |-> v]
IsOk(r) == r.kind = "value"

\* `const x = v; ...`: v is computed once and the rest runs with its value
Let(v, F(_)) == CHOOSE r \in {F(x) : x \in {v}} : TRUE
Let2(v1, v2, F(_, _)) == CHOOSE r \in {F(x, y) : x \in {v1}, y \in {v2}} : TRUE
Let3(v1, v2, v3, F(_, _, _)) ==
    CHOOSE r \in {F(x, y, z) : x \in {v1}, y \in {v2}, z \in {v3}} : TRUE

EPSILON == Q(1, 1000000)

\* Open3dMath.EpsilonEquals(a, b, epsilon): Math.abs(a - b) < epsilon
EpsilonEquals(a, b, epsilon) == RLess(RAbs(RSub(a, b)), epsilon)

\* Open3dMath.Clamp(value, min, max), swapping the bounds when min > max
Clamp(value, min, max) ==
    LET lo == IF RLess(max, min) THEN max ELSE min
        hi == IF RLess(max, min) THEN min ELSE max
    IN  RMin(RMax(value, lo), hi)

-----------------------------------------------------------------------------
(* Vector3d and Point3d: records [X, Y, Z] of numbers.                     *)

XYZ(x, y, z) == [X |-> x, Y |-> y, Z |-> z]

\* Point3d.SubtractPoint(point1, point2): the vector point1 - point2
SubtractPoint(point1, point2) ==
    XYZ(RSub(point1.X, point2.X), RSub(point1.Y, point2.Y), RSub(point1.Z, point2.Z))

\* Point3d.Add(point, vector) / Vector3d.Add(a, b) / Point3d.AddPoint(a, b)
Add(a, b) == XYZ(RAdd(a.X, b.X), RAdd(a.Y, b.Y), RAdd(a.Z, b.Z))

\* Point3d.Multiply(point, t) / Vector3d.Multiply(vector, t)
Multiply(a, t) == XYZ(RMul(a.X, t), RMul(a.Y, t), RMul(a.Z, t))

\* Vector3d.DotProduct(a, b)
DotProduct(a, b) == RAdd(RAdd(RMul(a.X, b.X), RMul(a.Y, b.Y)), RMul(a.Z, b.Z))

\* Vector3d.CrossProduct(a, b)
CrossProduct(a, b) ==
    XYZ(RSub(RMul(a.Y, b.Z), RMul(b.Y, a.Z)),
        RSub(RMul(a.Z, b.X), RMul(b.Z, a.X)),
        RSub(RMul(a.X, b.Y), RMul(b.X, a.Y)))

\* Point3d.Equals(a, b) / Vector3d.Equals(a, b): epsilon equality per coordinate
PointEquals(a, b) ==
    /\ EpsilonEquals(a.X, b.X, EPSILON)
    /\ EpsilonEquals(a.Y, b.Y, EPSILON)
    /\ EpsilonEquals(a.Z, b.Z, EPSILON)

-----------------------------------------------------------------------------
(* Transform: a 16-element row-major array; m[i] of the code is m[i + 1].  *)

Identity == <<ROne, RZero, RZero, RZero, RZero, ROne, RZero, RZero,
              RZero, RZero, ROne, RZero, RZero, RZero, RZero, ROne>>

\* Transform.Translation(v)
Translation(v) == <<ROne, RZero, RZero, v.X, RZero, ROne, RZero, v.Y,
                    RZero, RZero, ROne, v.Z, RZero, RZero, RZero, ROne>>

\* Transform.ScaleAtOrigin(sx, sy, sz)
ScaleAtOrigin(sx, sy, sz) == <<sx, RZero, RZero, RZero, RZero, sy, RZero, RZero,
                               RZero, RZero, sz, RZero, RZero, RZero, RZero, ROne>>

\* Transform.Equals(other): every element epsilon-equal
TransformEquals(te, me) == \A i \in 1..16 : EpsilonEquals(te[i], me[i], EPSILON)

\* Transform.MultiplyMatrix(a, b): the row-major product a * b of two 16-element arrays
MultiplyMatrix(ae, be) ==
    LET a11 == ae[1]
        a12 == ae[2]
        a13 == ae[3]
        a14 == ae[4]
        a21 == ae[5]
        a22 == ae[6]
        a23 == ae[7]
        a24 == ae[8]
        a31 == ae[9]
        a32 == ae[10]
        a33 == ae[11]
        a34 == ae[12]
        a41 == ae[13]
        a42 == ae[14]
        a43 == ae[15]
        a44 == ae[16]
        b11 == be[1]
        b12 == be[2]
        b13 == be[3]
        b14 == be[4]
        b21 == be[5]
        b22 == be[6]
        b23 == be[7]
        b24 == be[8]
        b31 == be[9]
        b32 == be[10]
        b33 == be[11]
        b34 == be[12]
        b41 == be[13]
        b42 == be[14]
        b43 == be[15]
        b44 == be[16]
        n11 == RAdd(RAdd(RAdd(RMul(a11, b11), RMul(a12, b21)), RMul(a13, b31)), RMul(a14, b41))
        n12 == RAdd(RAdd(RAdd(RMul(a11, b12), RMul(a12, b22)), RMul(a13, b32)), RMul(a14, b42))
        n13 == RAdd(RAdd(RAdd(RMul(a11, b13), RMul(a12, b23)), RMul(a13, b33)), RMul(a14, b43))
        n14 == RAdd(RAdd(RAdd(RMul(a11, b14), RMul(a12, b24)), RMul(a13, b34)), RMul(a14, b44))
        n21 == RAdd(RAdd(RAdd(RMul(a21, b11), RMul(a22, b21)), RMul(a23, b31)), RMul(a24, b41))
        n22 == RAdd(RAdd(RAdd(RMul(a21, b12), RMul(a22, b22)), RMul(a23, b32)), RMul(a24, b42))
        n23 == RAdd(RAdd(RAdd(RMul(a21, b13), RMul(a22, b23)), RMul(a23, b33)), RMul(a24, b43))
        n24 == RAdd(RAdd(RAdd(RMul(a21, b14), RMul(a22, b24)), RMul(a23, b34)), RMul(a24, b44))
        n31 == RAdd(RAdd(RAdd(RMul(a31, b11), RMul(a32, b21)), RMul(a33, b31)), RMul(a34, b41))
        n32 == RAdd(RAdd(RAdd(RMul(a31, b12), RMul(a32, b22)), RMul(a33, b32)), RMul(a34, b42))
        n33 == RAdd(RAdd(RAdd(RMul(a31, b13), RMul(a32, b23)), RMul(a33, b33)), RMul(a34, b43))
        n34 == RAdd(RAdd(RAdd(RMul(a31, b14), RMul(a32, b24)), RMul(a33, b34)), RMul(a34, b44))
        n41 == RAdd(RAdd(RAdd(RMul(a41, b11), RMul(a42, b21)), RMul(a43, b31)), RMul(a44, b41))
        n42 == RAdd(RAdd(RAdd(RMul(a41, b12), RMul(a42, b22)), RMul(a43, b32)), RMul(a44, b42))
        n43 == RAdd(RAdd(RAdd(RMul(a41, b13), RMul(a42, b23)), RMul(a43, b33)), RMul(a44, b43))
        n44 == RAdd(RAdd(RAdd(RMul(a41, b14), RMul(a42, b24)), RMul(a43, b34)), RMul(a44, b44))
    IN  <<n11, n12, n13, n14, n21, n22, n23, n24, n31, n32, n33, n34, n41, n42, n43, n44>>

\* Transform.Determinant: cofactor expansion over the array read as [n11, n21, n31, n41, n12, ...]
Determinant(m) ==
    LET n11 == m[1]
        n21 == m[2]
        n31 == m[3]
        n41 == m[4]
        n12 == m[5]
        n22 == m[6]
        n32 == m[7]
        n42 == m[8]
        n13 == m[9]
        n23 == m[10]
        n33 == m[11]
        n43 == m[12]
        n14 == m[13]
        n24 == m[14]
        n34 == m[15]
        n44 == m[16]
    IN  RAdd(RAdd(RAdd(RMul(n41, RSub(RAdd(RAdd(RSub(RSub(RMul(RMul(n14, n23), n32), RMul(RMul(n13, n24), n32)), RMul(RMul(n14, n22), n33)), RMul(RMul(n12, n24), n33)), RMul(RMul(n13, n22), n34)), RMul(RMul(n12, n23), n34))), RMul(n42, RSub(RAdd(RSub(RAdd(RSub(RMul(RMul(n11, n23), n34), RMul(RMul(n11, n24), n33)), RMul(RMul(n14, n21), n33)), RMul(RMul(n13, n21), n34)), RMul(RMul(n13, n24), n31)), RMul(RMul(n14, n23), n31)))), RMul(n43, RSub(RAdd(RAdd(RSub(RSub(RMul(RMul(n11, n24), n32), RMul(RMul(n11, n22), n34)), RMul(RMul(n14, n21), n32)), RMul(RMul(n12, n21), n34)), RMul(RMul(n14, n22), n31)), RMul(RMul(n12, n24), n31)))), RMul(n44, RAdd(RSub(RAdd(RAdd(RSub(RMul(RMul(RNeg(n13), n22), n31), RMul(RMul(n11, n23), n32)), RMul(RMul(n11, n22), n33)), RMul(RMul(n13, n21), n32)), RMul(RMul(n12, n21), n33)), RMul(RMul(n12, n23), n31))))

\* Transform.TryGetInverse, lines 1038-1058: the sixteen elements written to te
InverseElements(m, detInv) ==
    LET n11 == m[1]
        n21 == m[2]
        n31 == m[3]
        n41 == m[4]
        n12 == m[5]
        n22 == m[6]
        n32 == m[7]
        n42 == m[8]
        n13 == m[9]
        n23 == m[10]
        n33 == m[11]
        n43 == m[12]
        n14 == m[13]
        n24 == m[14]
        n34 == m[15]
        n44 == m[16]
        t11 == RAdd(RSub(RSub(RAdd(RSub(RMul(RMul(n23, n34), n42), RMul(RMul(n24, n33), n42)), RMul(RMul(n24, n32), n43)), RMul(RMul(n22, n34), n43)), RMul(RMul(n23, n32), n44)), RMul(RMul(n22, n33), n44))
        t12 == RSub(RAdd(RAdd(RSub(RSub(RMul(RMul(n14, n33), n42), RMul(RMul(n13, n34), n42)), RMul(RMul(n14, n32), n43)), RMul(RMul(n12, n34), n43)), RMul(RMul(n13, n32), n44)), RMul(RMul(n12, n33), n44))
        t13 == RAdd(RSub(RSub(RAdd(RSub(RMul(RMul(n13, n24), n42), RMul(RMul(n14, n23), n42)), RMul(RMul(n14, n22), n43)), RMul(RMul(n12, n24), n43)), RMul(RMul(n13, n22), n44)), RMul(RMul(n12, n23), n44))
        t14 == RSub(RAdd(RAdd(RSub(RSub(RMul(RMul(n14, n23), n32), RMul(RMul(n13, n24), n32)), RMul(RMul(n14, n22), n33)), RMul(RMul(n12, n24), n33)), RMul(RMul(n13, n22), n34)), RMul(RMul(n12, n23), n34))
        te0 == RMul(t11, detInv)
        te1 == RMul(RSub(RAdd(RAdd(RSub(RSub(RMul(RMul(n24, n33), n41), RMul(RMul(n23, n34), n41)), RMul(RMul(n24, n31), n43)), RMul(RMul(n21, n34), n43)), RMul(RMul(n23, n31), n44)), RMul(RMul(n21, n33), n44)), detInv)
        te2 == RMul(RAdd(RSub(RSub(RAdd(RSub(RMul(RMul(n22, n34), n41), RMul(RMul(n24, n32), n41)), RMul(RMul(n24, n31), n42)), RMul(RMul(n21, n34), n42)), RMul(RMul(n22, n31), n44)), RMul(RMul(n21, n32), n44)), detInv)
        te3 == RMul(RSub(RAdd(RAdd(RSub(RSub(RMul(RMul(n23, n32), n41), RMul(RMul(n22, n33), n41)), RMul(RMul(n23, n31), n42)), RMul(RMul(n21, n33), n42)), RMul(RMul(n22, n31), n43)), RMul(RMul(n21, n32), n43)), detInv)
        te4 == RMul(t12, detInv)
        te5 == RMul(RAdd(RSub(RSub(RAdd(RSub(RMul(RMul(n13, n34), n41), RMul(RMul(n14, n33), n41)), RMul(RMul(n14, n31), n43)), RMul(RMul(n11, n34), n43)), RMul(RMul(n13, n31), n44)), RMul(RMul(n11, n33), n44)), detInv)
        te6 == RMul(RSub(RAdd(RAdd(RSub(RSub(RMul(RMul(n14, n32), n41), RMul(RMul(n12, n34), n41)), RMul(RMul(n14, n31), n42)), RMul(RMul(n11, n34), n42)), RMul(RMul(n12, n31), n44)), RMul(RMul(n11, n32), n44)), detInv)
        te7 == RMul(RAdd(RSub(RSub(RAdd(RSub(RMul(RMul(n12, n33), n41), RMul(RMul(n13, n32), n41)), RMul(RMul(n13, n31), n42)), RMul(RMul(n11, n33), n42)), RMul(RMul(n12, n31), n43)), RMul(RMul(n11, n32), n43)), detInv)
        te8 == RMul(t13, detInv)
        te9 == RMul(RSub(RAdd(RAdd(RSub(RSub(RMul(RMul(n14, n23), n41), RMul(RMul(n13, n24), n41)), RMul(RMul(n14, n21), n43)), RMul(RMul(n11, n24), n43)), RMul(RMul(n13, n21), n44)), RMul(RMul(n11, n23), n44)), detInv)
        te10 == RMul(RAdd(RSub(RSub(RAdd(RSub(RMul(RMul(n12, n24), n41), RMul(RMul(n14, n22), n41)), RMul(RMul(n14, n21), n42)), RMul(RMul(n11, n24), n42)), RMul(RMul(n12, n21), n44)), RMul(RMul(n11, n22), n44)), detInv)
        te11 == RMul(RSub(RAdd(RAdd(RSub(RSub(RMul(RMul(n13, n22), n41), RMul(RMul(n12, n23), n41)), RMul(RMul(n13, n21), n42)), RMul(RMul(n11, n23), n42)), RMul(RMul(n12, n21), n43)), RMul(RMul(n11, n22), n43)), detInv)
        te12 == RMul(t14, detInv)
        te13 == RMul(RAdd(RSub(RSub(RAdd(RSub(RMul(RMul(n13, n24), n31), RMul(RMul(n14, n23), n31)), RMul(RMul(n14, n21), n33)), RMul(RMul(n11, n24), n33)), RMul(RMul(n13, n21), n34)), RMul(RMul(n11, n23), n34)), detInv)
        te14 == RMul(RSub(RAdd(RAdd(RSub(RSub(RMul(RMul(n14, n22), n31), RMul(RMul(n12, n24), n31)), RMul(RMul(n14, n21), n32)), RMul(RMul(n11, n24), n32)), RMul(RMul(n12, n21), n34)), RMul(RMul(n11, n22), n34)), detInv)
        te15 == RMul(RAdd(RSub(RSub(RAdd(RSub(RMul(RMul(n12, n23), n31), RMul(RMul(n13, n22), n31)), RMul(RMul(n13, n21), n32)), RMul(RMul(n11, n23), n32)), RMul(RMul(n12, n21), n33)), RMul(RMul(n11, n22), n33)), detInv)
    IN  <<te0, te1, te2, te3, te4, te5, te6, te7, te8, te9, te10, te11, te12, te13, te14, te15>>

\* the elements are not scaled by 1 / det
TryGetInverse_Unscaled(m) ==
    IF Determinant(m) = RZero THEN Null ELSE Ok(InverseElements(m, ROne))

\* a determinant within EPSILON of 0 counts as singular
TryGetInverse_Tolerant(m) ==
    IF EpsilonEquals(Determinant(m), RZero, EPSILON) THEN Null
    ELSE Ok(InverseElements(m, RDiv(ROne, Determinant(m))))

\* Transform.TryGetInverse: null when det === 0 exactly, else the adjugate times 1 / det
TryGetInverse(m) ==
    LET n11 == m[1]
        n21 == m[2]
        n31 == m[3]
        n41 == m[4]
        n12 == m[5]
        n22 == m[6]
        n32 == m[7]
        n42 == m[8]
        n13 == m[9]
        n23 == m[10]
        n33 == m[11]
        n43 == m[12]
        n14 == m[13]
        n24 == m[14]
        n34 == m[15]
        n44 == m[16]
        t11 == RAdd(RSub(RSub(RAdd(RSub(RMul(RMul(n23, n34), n42), RMul(RMul(n24, n33), n42)), RMul(RMul(n24, n32), n43)), RMul(RMul(n22, n34), n43)), RMul(RMul(n23, n32), n44)), RMul(RMul(n22, n33), n44))
        t12 == RSub(RAdd(RAdd(RSub(RSub(RMul(RMul(n14, n33), n42), RMul(RMul(n13, n34), n42)), RMul(RMul(n14, n32), n43)), RMul(RMul(n12, n34), n43)), RMul(RMul(n13, n32), n44)), RMul(RMul(n12, n33), n44))
        t13 == RAdd(RSub(RSub(RAdd(RSub(RMul(RMul(n13, n24), n42), RMul(RMul(n14, n23), n42)), RMul(RMul(n14, n22), n43)), RMul(RMul(n12, n24), n43)), RMul(RMul(n13, n22), n44)), RMul(RMul(n12, n23), n44))
        t14 == RSub(RAdd(RAdd(RSub(RSub(RMul(RMul(n14, n23), n32), RMul(RMul(n13, n24), n32)), RMul(RMul(n14, n22), n33)), RMul(RMul(n12, n24), n33)), RMul(RMul(n13, n22), n34)), RMul(RMul(n12, n23), n34))
        det == RAdd(RAdd(RAdd(RMul(n11, t11), RMul(n21, t12)), RMul(n31, t13)), RMul(n41, t14))
    IN  IF det = RZero THEN Null ELSE Ok(InverseElements(m, RDiv(ROne, det)))

\* Transform.CombineTransforms(transforms): reverse the list, then fold
\* m = m.MultiplyMatrix(xforms[i]) from Identity
RECURSIVE CombineFold(_, _, _)
CombineFold(m, xforms, i) ==
    IF i > Len(xforms) THEN m
    ELSE CombineFold(MultiplyMatrix(m, xforms[i]), xforms, i + 1)

Reverse(s) == [i \in 1..Len(s) |-> s[Len(s) + 1 - i]]

\* the list is folded without being reversed
CombineTransforms_NoReverse(transforms) == CombineFold(Identity, transforms, 1)

CombineTransforms(transforms) == CombineFold(Identity, Reverse(transforms), 1)

\* the array returned is the storage of the transform itself
ToArray_Storage(h, t) == [a |-> h[t].m, of |-> t]

\* Transform.ToArray(): [...this.m], a fresh array that shares nothing with
\* the transform; `of` names the object whose storage an array is (0: none)
NoRef == 0
ToArray(h, t) == [a |-> h[t].m, of |-> NoRef]

\* Transform.M: the getter returns this.ToArray()
M(h, t) == ToArray(h, t)

\* a write through an array handle reaches the heap only when the handle
\* is the storage of an object
WriteBack(h, handle, a) ==
    IF handle.of = NoRef THEN h ELSE [h EXCEPT ![handle.of].m = a]

\* the translation elements are not zeroed
Vector3dTransform_KeepsTranslation(h, v, t) ==
    LET m == M(h, t).a
        xx == RAdd(RAdd(RAdd(RMul(m[1], v.X), RMul(m[2], v.Y)), RMul(m[3], v.Z)), m[4])
        yy == RAdd(RAdd(RAdd(RMul(m[5], v.X), RMul(m[6], v.Y)), RMul(m[7], v.Z)), m[8])
        zz == RAdd(RAdd(RAdd(RMul(m[9], v.X), RMul(m[10], v.Y)), RMul(m[11], v.Z)), m[12])
    IN  [value |-> XYZ(xx, yy, zz), heap |-> h]

\* Vector3d.Transform(transformation): zero m[3], m[7], m[11] of the array
\* the getter returned, then apply it
Vector3dTransform(h, v, t) ==
    LET handle == M(h, t)
        m == [handle.a EXCEPT ![4] = RZero, ![8] = RZero, ![12] = RZero]
        xx == RAdd(RAdd(RAdd(RMul(m[1], v.X), RMul(m[2], v.Y)), RMul(m[3], v.Z)), m[4])
        yy == RAdd(RAdd(RAdd(RMul(m[5], v.X), RMul(m[6], v.Y)), RMul(m[7], v.Z)), m[8])
        zz == RAdd(RAdd(RAdd(RMul(m[9], v.X), RMul(m[10], v.Y)), RMul(m[11], v.Z)), m[12])
    IN  [value |-> XYZ(xx, yy, zz), heap |-> WriteBack(h, handle, m)]

\* Point3d.Transform(transformation) on the array m the getter returned
PointApply(p, m) ==
    LET xx == RAdd(RAdd(RAdd(RMul(m[1], p.X), RMul(m[2], p.Y)), RMul(m[3], p.Z)), m[4])
        yy == RAdd(RAdd(RAdd(RMul(m[5], p.X), RMul(m[6], p.Y)), RMul(m[7], p.Z)), m[8])
        zz == RAdd(RAdd(RAdd(RMul(m[9], p.X), RMul(m[10], p.Y)), RMul(m[11], p.Z)), m[12])
    IN  XYZ(xx, yy, zz)

Point3dTransform(h, p, t) == [value |-> PointApply(p, M(h, t).a), heap |-> h]

-----------------------------------------------------------------------------

(* Inputs of the Transform scenarios.                                      *)

MaxCoord == 1
MaxList == 3

Coord == {R(i) : i \in -MaxCoord..MaxCoord} \cup {Q(1, 2)}
Points == {XYZ(x, y, z) : x \in Coord, y \in Coord, z \in Coord}

Rs(s) == [i \in DOMAIN s |-> R(s[i])]

\* the matrices of the repository's Transform tests
TestT1 == Rs(<<5, 7, 9, 10, 2, 3, 3, 8, 8, 10, 2, 3, 3, 3, 4, 8>>)
TestT2 == Rs(<<3, 10, 12, 18, 12, 1, 4, 9, 9, 10, 12, 2, 3, 12, 4, 10>>)
TestT3 == Rs(<<1, 2, 3, 4, 5, 6, 7, 8, 9, 10, 11, 12, 13, 14, 15, 16>>)

\* upper-left 3x3 blocks: identity, scalings, quarter turn, shear, reflection,
\* a general block and a singular one
LinearParts ==
    { Rs(<<1, 0, 0, 0, 1, 0, 0, 0, 1>>),
      <<R(2), R(0), R(0), R(0), R(3), R(0), R(0), R(0), Q(1, 2)>>,
      <<Q(1, 1000), R(0), R(0), R(0), Q(1, 1000), R(0), R(0), R(0), Q(1, 1000)>>,
      Rs(<<0, -1, 0, 1, 0, 0, 0, 0, 1>>),
      Rs(<<1, 2, 0, 0, 1, 3, 0, 0, 1>>),
      Rs(<<1, 0, 0, 0, -1, 0, 0, 0, 1>>),
      Rs(<<1, 2, 0, 0, 1, 3, 4, 0, 1>>),
      Rs(<<1, 2, 3, 2, 4, 6, 0, 1, 1>>) }

Translations == {XYZ(R(0), R(0), R(0)), XYZ(R(1), R(2), R(3)), XYZ(Q(-1, 2), R(0), R(5))}

BottomRows == {Rs(<<0, 0, 0, 1>>), Rs(<<0, 0, 0, 2>>), Rs(<<3, 3, 4, 8>>)}

Compose(L, t, b) ==
    <<L[1], L[2], L[3], t.X, L[4], L[5], L[6], t.Y, L[7], L[8], L[9], t.Z,
      b[1], b[2], b[3], b[4]>>

XformInputs ==
    {Compose(L, t, b) : L \in LinearParts, t \in Translations, b \in BottomRows}
        \cup {TestT1, TestT2, TestT3}

\* the transforms that lists handed to CombineTransforms are built from
CombineInputs ==
    { Translation(XYZ(R(1), R(2), R(3))),
      Translation(XYZ(Q(-1, 2), R(0), R(5))),
      ScaleAtOrigin(R(2), R(3), Q(1, 2)),
      Compose(Rs(<<0, -1, 0, 1, 0, 0, 0, 0, 1>>), XYZ(R(0), R(0), R(0)), Rs(<<0, 0, 0, 1>>)),
      Compose(Rs(<<1, 2, 0, 0, 1, 3, 0, 0, 1>>), XYZ(R(0), R(1), R(0)), Rs(<<0, 0, 0, 1>>)),
      TestT1 }

SeqsUpTo(S, n) == UNION {[1..k -> S] : k \in 0..n}

ProbePoints ==
    { XYZ(R(0), R(0), R(0)), XYZ(R(1), R(0), R(0)), XYZ(R(0), R(1), R(0)),
      XYZ(R(0), R(0), R(1)), XYZ(R(1), R(2), R(3)) }

-----------------------------------------------------------------------------
(* The Transform scenarios: a vector and a point transformed by the same   *)
(* Transform object; an inversion; a combination applied to a point.       *)

InitTransform ==
    /\ pc = "ready"
    /\ \/ \E T \in XformInputs, v \in Points :
            /\ args = [op |-> "Transform", t |-> 1, T |-> T, v |-> v]
            /\ heap = (1 :> [m |-> T])
            /\ res = [vec |-> None, pt |-> None]
       \/ \E T \in XformInputs :
            /\ args = [op |-> "TryGetInverse", T |-> T]
            /\ heap = <<>>
            /\ res = None
       \/ \E ts \in SeqsUpTo(CombineInputs, MaxList), p \in ProbePoints :
            /\ args = [op |-> "CombineTransforms", ts |-> ts, p |-> p]
            /\ heap = <<>>
            /\ res = None

\* new Vector3d(v).Transform(t)
VectorTransform ==
    /\ args.op = "Transform"
    /\ res.vec = None
    /\ LET r == Vector3dTransform(heap, args.v, args.t)
       IN  /\ res' = [res EXCEPT !.vec = Ok(r.value)]
           /\ heap' = r.heap
           /\ pc' = IF res.pt = None THEN "ready" ELSE "done"
    /\ UNCHANGED args

\* new Point3d(v).Transform(t)
PointTransform ==
    /\ args.op = "Transform"
    /\ res.pt = None
    /\ LET r == Point3dTransform(heap, args.v, args.t)
       IN  /\ res' = [res EXCEPT !.pt = Ok(r.value)]
           /\ heap' = r.heap
           /\ pc' = IF res.vec = None THEN "ready" ELSE "done"
    /\ UNCHANGED args

\* T.TryGetInverse()
Inverse ==
    /\ args.op = "TryGetInverse"
    /\ pc = "ready"
    /\ res' = TryGetInverse(args.T)
    /\ pc' = "done"
    /\ UNCHANGED <<args, heap>>

\* p.Transform(Transform.CombineTransforms(ts))
Combine ==
    /\ args.op = "CombineTransforms"
    /\ pc = "ready"
    /\ LET m == CombineTransforms(args.ts)
       IN  res' = Ok([m |-> m, p |-> PointApply(args.p, m)])
    /\ pc' = "done"
    /\ UNCHANGED <<args, heap>>

NextTransform == VectorTransform \/ PointTransform \/ Inverse \/ Combine

SpecTransform == InitTransform /\ [][NextTransform]_vars

-----------------------------------------------------------------------------
(* Properties of Transform, Vector3d.Transform and Point3d.Transform.      *)

\* the upper-left 3x3 block of T applied to v
LinearPart(T, v) ==
    XYZ(RAdd(RAdd(RMul(T[1], v.X), RMul(T[2], v.Y)), RMul(T[3], v.Z)),
        RAdd(RAdd(RMul(T[5], v.X), RMul(T[6], v.Y)), RMul(T[7], v.Z)),
        RAdd(RAdd(RMul(T[9], v.X), RMul(T[10], v.Y)), RMul(T[11], v.Z)))

\* the translation column (m[3], m[7], m[11]) of T
TranslationColumn(T) == XYZ(T[4], T[8], T[12])

ZeroVector == XYZ(RZero, RZero, RZero)

\* C1: Vector3d(x,y,z).Transform(T) is the linear 3x3 part of T applied to
\* (x,y,z), whatever T's translation column is; Point3d(x,y,z).Transform(T)
\* adds the translation column; so point result - vector result is the
\* translation column (m[3], m[7], m[11]) of T.
C1_VectorLinearPointAffine ==
    args.op = "Transform" =>
        /\ IsOk(res.vec) => res.vec.v = LinearPart(args.T, args.v)
        /\ IsOk(res.pt) =>
              res.pt.v = Add(LinearPart(args.T, args.v), TranslationColumn(args.T))
        /\ (IsOk(res.vec) /\ IsOk(res.pt)) =>
              SubtractPoint(res.pt.v, res.vec.v) = TranslationColumn(args.T)

\* C1 witness: both calls made with a transform that translates and a
\* vector whose image is neither zero nor the vector itself
C1_Witness ==
    /\ args.op = "Transform"
    /\ IsOk(res.vec) /\ IsOk(res.pt)
    /\ TranslationColumn(args.T) # ZeroVector
    /\ res.vec.v # ZeroVector
    /\ res.vec.v # args.v

\* C2: for a transform with non-zero determinant, TryGetInverse is non-null
\* and its product with the transform, on either side, is Identity within
\* epsilon.
C2_InverseRoundTrip ==
    (args.op = "TryGetInverse" /\ pc = "done" /\ Determinant(args.T) # RZero) =>
        /\ IsOk(res)
        /\ TransformEquals(MultiplyMatrix(args.T, res.v), Identity)
        /\ TransformEquals(MultiplyMatrix(res.v, args.T), Identity)

\* C2 witness: the inverse of a non-affine, non-symmetric matrix was taken
C2_Witness ==
    /\ args.op = "TryGetInverse" /\ pc = "done"
    /\ IsOk(res)
    /\ args.T = TestT1
    /\ res.v # args.T

\* t1 applied to p first, then t2, ..., tn last
RECURSIVE ApplyInOrder(_, _, _)
ApplyInOrder(ts, i, p) ==
    IF i > Len(ts) THEN p ELSE ApplyInOrder(ts, i + 1, PointApply(p, ts[i]))

\* tn * ... * t2 * t1
RECURSIVE ProductLastFirst(_, _)
ProductLastFirst(ts, n) ==
    IF n = 0 THEN Identity ELSE MultiplyMatrix(ts[n], ProductLastFirst(ts, n - 1))

\* bottom row (0, 0, 0, 1)
IsAffine(T) == T[13] = RZero /\ T[14] = RZero /\ T[15] = RZero /\ T[16] = ROne

\* C3 as stated: for every list of transforms and every point p,
\* p.Transform(CombineTransforms(ts)) is t1 applied first, ..., tn last.
C3_Original ==
    (args.op = "CombineTransforms" /\ pc = "done") =>
        res.v.p = ApplyInOrder(args.ts, 1, args.p)

\* C3: the combined matrix is tn * ... * t2 * t1 for every list, and when
\* every transform of the list is affine (bottom row 0,0,0,1) the combined
\* transform applied to p is t1 applied first, ..., tn last.
C3_CombineOrder ==
    (args.op = "CombineTransforms" /\ pc = "done") =>
        /\ res.v.m = ProductLastFirst(args.ts, Len(args.ts))
        /\ (\A i \in 1..Len(args.ts) : IsAffine(args.ts[i])) =>
              res.v.p = ApplyInOrder(args.ts, 1, args.p)

\* C3 witness: a list of affine transforms whose order matters was combined
C3_Witness ==
    /\ args.op = "CombineTransforms" /\ pc = "done"
    /\ Len(args.ts) >= 2
    /\ \A i \in 1..Len(args.ts) : IsAffine(args.ts[i])
    /\ res.v.p # ApplyInOrder(Reverse(args.ts), 1, args.p)

-----------------------------------------------------------------------------
(* Vector3d: length, unitizing, angle and parallelism.                     *)

Infinity == <<1, 0>>

Abs3Max(x, y, z) == RMax(RAbs(x), RMax(RAbs(y), RAbs(z)))

\* Math.hypot(x, y, z), computed as s * sqrt((x/s)^2 + (y/s)^2 + (z/s)^2)
\* with s the largest magnitude
Hypot(x, y, z) ==
    IF x = RZero /\ y = RZero /\ z = RZero THEN RZero
    ELSE Let(Abs3Max(x, y, z), LAMBDA s :
             Let3(RDiv(x, s), RDiv(y, s), RDiv(z, s), LAMBDA u, v, w :
                  RMul(s, RSqrt(RAdd(RAdd(RMul(u, u), RMul(v, v)), RMul(w, w))))))

\* Vector3d.Length
Length(v) == Hypot(v.X, v.Y, v.Z)

\* Point3d.DistanceTo(other)
DistanceTo(a, b) == Hypot(RSub(a.X, b.X), RSub(a.Y, b.Y), RSub(a.Z, b.Z))

\* Vector3d.IsZero: every component epsilon-equal to 0
IsZero(v) ==
    /\ EpsilonEquals(v.X, RZero, EPSILON)
    /\ EpsilonEquals(v.Y, RZero, EPSILON)
    /\ EpsilonEquals(v.Z, RZero, EPSILON)

\* Vector3d.Unitize(v): throws when the length is exactly 0
Unitize(v) ==
    Let(Length(v), LAMBDA length :
        IF length = RZero THEN Thrown
        ELSE XYZ(RDiv(v.X, length), RDiv(v.Y, length), RDiv(v.Z, length)))

\* Vector3d.VectorAngle(a, b) for non-zero a, b, kept as the clamped cosine
\* that Math.acos is applied to
VectorAngleCos(a, b) ==
    Clamp(RDiv(DotProduct(a, b), RMul(Length(a), Length(b))), R(-1), ROne)

\* cos(ANGLE_EPSILON) = cos(0.001) = 0.99999950000004...; acos is decreasing
\* on [-1, 1], so angle < ANGLE_EPSILON iff cos > cos(ANGLE_EPSILON) and
\* PI - angle < ANGLE_EPSILON iff cos < -cos(ANGLE_EPSILON)
CosAngleEpsilon == Q(1999999, 2000000)

\* Open3d.ParallelIndicator
Parallel == 1
NotParallel == 0
AntiParallel == -1

\* Vector3d.IsParallel(a, b) / a.IsParallelTo(b)
IsParallel(a, b) ==
    IF IsZero(a) \/ IsZero(b) THEN Parallel
    ELSE Let(VectorAngleCos(a, b), LAMBDA cos :
             IF RLess(CosAngleEpsilon, cos) THEN Parallel
             ELSE IF RLess(cos, RNeg(CosAngleEpsilon)) THEN AntiParallel
             ELSE NotParallel)

\* Vector3d.GetPerpendicularVector(): the six-way magnitude ordering, then
\* Unitize
GetPerpendicularVector(v) ==
    LET ax == RAbs(v.X)
        ay == RAbs(v.Y)
        az == RAbs(v.Z)
        arr == IF RLess(ax, ay)
               THEN IF RLess(ay, az) THEN XYZ(RZero, v.Z, RNeg(v.Y))
                    ELSE IF RLeq(ax, az) THEN XYZ(RZero, RNeg(v.Z), v.Y)
                    ELSE XYZ(v.Y, RNeg(v.X), RZero)
               ELSE IF RLess(ax, az) THEN XYZ(v.Z, RZero, RNeg(v.X))
               ELSE IF RLess(ay, az) THEN XYZ(RNeg(v.Z), RZero, v.X)
               ELSE XYZ(RNeg(v.Y), v.X, RZero)
    IN  Unitize(arr)

-----------------------------------------------------------------------------
(* Line: a record [From, To] of points.                                    *)

\* new Line(from, to)
NewLine(from, to) == [From |-> from, To |-> to]

\* Line.IsValid: !From.Equals(To)
LineIsValid(l) == ~PointEquals(l.From, l.To)

\* Line.Direction, which throws on an invalid line
Direction(l) == SubtractPoint(l.To, l.From)

\* Line.UnitDirection
UnitDirection(l) == Unitize(Direction(l))

\* Line.Length
LineLength(l) == DistanceTo(l.To, l.From)

\* Line.PointAt(param), which throws on an invalid line
PointAt(l, param) == Add(Multiply(Direction(l), param), l.From)

-----------------------------------------------------------------------------
(* Plane: a record [Origin, XAxis, YAxis, ZAxis].                          *)

\* new Plane(origin, xAxis, yAxis): unitize both axes, ZAxis is the unitized
\* cross product, YAxis is recomputed from ZAxis and XAxis
NewPlane(origin, xAxis, yAxis) ==
    Let2(Unitize(xAxis), Unitize(yAxis), LAMBDA x, y :
         IF x = Thrown \/ y = Thrown THEN Thrown
         ELSE Let(Unitize(CrossProduct(x, y)), LAMBDA z :
                  IF z = Thrown THEN Thrown
                  ELSE Let(Unitize(CrossProduct(z, x)), LAMBDA y2 :
                           IF y2 = Thrown THEN Thrown
                           ELSE [Origin |-> origin, XAxis |-> x, YAxis |-> y2, ZAxis |-> z])))

\* Plane.Normal: ZAxis.Unitize()
Normal(pl) == Unitize(pl.ZAxis)

\* Plane.TPArameter: -Normal . Origin
TPArameter(pl) == RNeg(DotProduct(Normal(pl), pl.Origin))

\* Plane.Equation: [A, B, C, D] of Ax + By + Cz + D = 0
Equation(pl) ==
    Let(Normal(pl), LAMBDA normal : <<normal.X, normal.Y, normal.Z, TPArameter(pl)>>)

\* Plane.CreateFromNormal(origin, normal)
CreateFromNormal(origin, normal) ==
    Let2(Unitize(normal), GetPerpendicularVector(normal), LAMBDA zAxis, xAxis :
         IF zAxis = Thrown \/ xAxis = Thrown THEN Thrown
         ELSE Let(Unitize(CrossProduct(zAxis, xAxis)), LAMBDA yAxis :
                  IF yAxis = Thrown THEN Thrown
                  ELSE NewPlane(origin, xAxis, yAxis)))

-----------------------------------------------------------------------------
(* Intersection.                                                           *)

\* Intersection.LineLineTParameters(line1, line2) on two valid lines: null
\* when denom is epsilon-zero, else [mua, mub]
LineLineTParameters(line1, line2) ==
    Let3(SubtractPoint(line1.From, line2.From), Direction(line2), Direction(line1),
         LAMBDA p13, p43, p21 :
         Let3(DotProduct(p13, p43), DotProduct(p43, p21), DotProduct(p43, p43),
              LAMBDA d1343, d4321, d4343 :
              LET d1321 == DotProduct(p13, p21)
                  d2121 == DotProduct(p21, p21)
                  numer == RSub(RMul(d1343, d4321), RMul(d1321, d4343))
              IN  Let(RSub(RMul(d2121, d4343), RMul(d4321, d4321)), LAMBDA denom :
                      IF EpsilonEquals(denom, RZero, EPSILON) THEN Null
                      ELSE Let(RDiv(numer, denom), LAMBDA mua :
                               Ok(<<mua, RDiv(RAdd(d1343, RMul(d4321, mua)), d4343)>>)))))

\* d > distance, where distance may be Infinity
Exceeds(d, distance) == distance # Infinity /\ RLess(distance, d)

\* the finite-segment gate ignored
CrossingLineLine_Unlimited(firstLine, secondLine, limitToFiniteSegment, distance) ==
    IF ~LineIsValid(firstLine) \/ ~LineIsValid(secondLine) THEN Null
    ELSE Let(LineLineTParameters(firstLine, secondLine), LAMBDA tParameters :
             IF ~IsOk(tParameters) THEN Null
             ELSE LET mua == tParameters.v[1]
                      mub == tParameters.v[2]
                  IN  Let2(PointAt(firstLine, mua), PointAt(secondLine, mub),
                           LAMBDA pointA, pointB :
                           LET d == DistanceTo(pointA, pointB)
                           IN  IF Exceeds(d, distance) THEN Null
                               ELSE Ok([ParameterA |-> mua, ParameterB |-> mub,
                                        PointA |-> pointA, PointB |-> pointB])))

\* Intersection.CrossingLineLine(firstLine, secondLine, limitToFiniteSegment, distance)
CrossingLineLine(firstLine, secondLine, limitToFiniteSegment, distance) ==
    IF ~LineIsValid(firstLine) \/ ~LineIsValid(secondLine) THEN Null
    ELSE Let(LineLineTParameters(firstLine, secondLine), LAMBDA tParameters :
             IF ~IsOk(tParameters) THEN Null
             ELSE LET mua == tParameters.v[1]
                      mub == tParameters.v[2]
                  IN  Let2(PointAt(firstLine, mua), PointAt(secondLine, mub),
                           LAMBDA pointA, pointB :
                           LET d == DistanceTo(pointA, pointB)
                           IN  IF limitToFiniteSegment
                                  /\ (RLess(mua, RZero) \/ RLess(ROne, mua)
                                      \/ RLess(mub, RZero) \/ RLess(ROne, mub))
                               THEN Null
                               ELSE IF Exceeds(d, distance) THEN Null
                               ELSE Ok([ParameterA |-> mua, ParameterB |-> mub,
                                        PointA |-> pointA, PointB |-> pointB])))

\* Intersection.LineLine(firstLine, secondLine, limitToFiniteSegment, distance)
LineLine(firstLine, secondLine, limitToFiniteSegment, distance) ==
    Let(CrossingLineLine(firstLine, secondLine, limitToFiniteSegment, distance),
        LAMBDA crossing :
        IF IsOk(crossing)
        THEN Ok(Multiply(Add(crossing.v.PointA, crossing.v.PointB), Q(1, 2)))
        ELSE Null)

\* a line lying in the plane is answered with its From point
LinePlane_CoincidentFrom(line, plane, limitToFiniteSegment) ==
    IF ~LineIsValid(line) THEN Thrown
    ELSE Let3(SubtractPoint(line.From, plane.Origin), Normal(plane), UnitDirection(line),
              LAMBDA diff, normal, unitDirection :
              Let2(DotProduct(diff, normal), DotProduct(unitDirection, normal),
                   LAMBDA projectLine, projectNormal :
                   IF EpsilonEquals(projectNormal, RZero, EPSILON)
                   THEN IF EpsilonEquals(projectLine, RZero, EPSILON) THEN Ok(line.From) ELSE Null
                   ELSE Let(RDiv(RNeg(projectLine), projectNormal), LAMBDA projectLength :
                            IF limitToFiniteSegment
                               /\ (RLess(projectLength, RZero)
                                   \/ RLess(LineLength(line), projectLength))
                            THEN Null
                            ELSE Ok(Add(line.From, Multiply(unitDirection, projectLength))))))

\* Intersection.LinePlane(line, plane, limitToFiniteSegment); line.UnitDirection
\* throws on an invalid line
LinePlane(line, plane, limitToFiniteSegment) ==
    IF ~LineIsValid(line) THEN Thrown
    ELSE Let3(SubtractPoint(line.From, plane.Origin), Normal(plane), UnitDirection(line),
              LAMBDA diff, normal, unitDirection :
              Let2(DotProduct(diff, normal), DotProduct(unitDirection, normal),
                   LAMBDA projectLine, projectNormal :
                   IF EpsilonEquals(projectNormal, RZero, EPSILON)
                   THEN Null
                   ELSE Let(RDiv(RNeg(projectLine), projectNormal), LAMBDA projectLength :
                            IF limitToFiniteSegment
                               /\ (RLess(projectLength, RZero)
                                   \/ RLess(LineLength(line), projectLength))
                            THEN Null
                            ELSE Ok(Add(line.From, Multiply(unitDirection, projectLength))))))

\* the transposed adjugate is applied to mB
PlanePlanePlane_Transposed(planeA, planeB, planeC) ==
    Let3(Equation(planeA), Equation(planeB), Equation(planeC), LAMBDA ea, eb, ec :
    LET a11 == ea[1]
        a12 == eb[1]
        a13 == ec[1]
        a21 == ea[2]
        a22 == eb[2]
        a23 == ec[2]
        a31 == ea[3]
        a32 == eb[3]
        a33 == ec[3]
        mB == <<RNeg(ea[4]), RNeg(eb[4]), RNeg(ec[4])>>
    IN  Let(RAdd(RSub(RMul(a11, RSub(RMul(a22, a33), RMul(a23, a32))), RMul(a12, RSub(RMul(a21, a33), RMul(a23, a31)))), RMul(a13, RSub(RMul(a21, a32), RMul(a22, a31)))),
            LAMBDA det :
            IF EpsilonEquals(det, RZero, EPSILON) THEN Null
            ELSE Let(RDiv(R(1), det), LAMBDA invDet :
                 LET v11 == RMul(invDet, RSub(RMul(a22, a33), RMul(a23, a32)))
                     v12 == RMul(invDet, RSub(RMul(a13, a32), RMul(a12, a33)))
                     v13 == RMul(invDet, RSub(RMul(a12, a23), RMul(a13, a22)))
                     v21 == RMul(invDet, RSub(RMul(a23, a31), RMul(a21, a33)))
                     v22 == RMul(invDet, RSub(RMul(a11, a33), RMul(a13, a31)))
                     v23 == RMul(invDet, RSub(RMul(a13, a21), RMul(a11, a23)))
                     v31 == RMul(invDet, RSub(RMul(a21, a32), RMul(a22, a31)))
                     v32 == RMul(invDet, RSub(RMul(a12, a31), RMul(a11, a32)))
                     v33 == RMul(invDet, RSub(RMul(a11, a22), RMul(a12, a21)))
                     vX == RAdd(RAdd(RMul(v11, mB[1]), RMul(v12, mB[2])), RMul(v13, mB[3]))
                     vY == RAdd(RAdd(RMul(v21, mB[1]), RMul(v22, mB[2])), RMul(v23, mB[3]))
                     vZ == RAdd(RAdd(RMul(v31, mB[1]), RMul(v32, mB[2])), RMul(v33, mB[3]))
                 IN  Ok(XYZ(vX, vY, vZ)))))

\* Intersection.PlanePlanePlane(planeA, planeB, planeC): the 3x3 system
\* mA * V = mB solved with the adjugate; null when det is epsilon-zero
PlanePlanePlane(planeA, planeB, planeC) ==
    Let3(Equation(planeA), Equation(planeB), Equation(planeC), LAMBDA ea, eb, ec :
    LET a11 == ea[1]
        a12 == ea[2]
        a13 == ea[3]
        a21 == eb[1]
        a22 == eb[2]
        a23 == eb[3]
        a31 == ec[1]
        a32 == ec[2]
        a33 == ec[3]
        mB == <<RNeg(ea[4]), RNeg(eb[4]), RNeg(ec[4])>>
    IN  Let(RAdd(RSub(RMul(a11, RSub(RMul(a22, a33), RMul(a23, a32))), RMul(a12, RSub(RMul(a21, a33), RMul(a23, a31)))), RMul(a13, RSub(RMul(a21, a32), RMul(a22, a31)))),
            LAMBDA det :
            IF EpsilonEquals(det, RZero, EPSILON) THEN Null
            ELSE Let(RDiv(R(1), det), LAMBDA invDet :
                 LET v11 == RMul(invDet, RSub(RMul(a22, a33), RMul(a23, a32)))
                     v12 == RMul(invDet, RSub(RMul(a13, a32), RMul(a12, a33)))
                     v13 == RMul(invDet, RSub(RMul(a12, a23), RMul(a13, a22)))
                     v21 == RMul(invDet, RSub(RMul(a23, a31), RMul(a21, a33)))
                     v22 == RMul(invDet, RSub(RMul(a11, a33), RMul(a13, a31)))
                     v23 == RMul(invDet, RSub(RMul(a13, a21), RMul(a11, a23)))
                     v31 == RMul(invDet, RSub(RMul(a21, a32), RMul(a22, a31)))
                     v32 == RMul(invDet, RSub(RMul(a12, a31), RMul(a11, a32)))
                     v33 == RMul(invDet, RSub(RMul(a11, a22), RMul(a12, a21)))
                     vX == RAdd(RAdd(RMul(v11, mB[1]), RMul(v12, mB[2])), RMul(v13, mB[3]))
                     vY == RAdd(RAdd(RMul(v21, mB[1]), RMul(v22, mB[2])), RMul(v23, mB[3]))
                     vZ == RAdd(RAdd(RMul(v31, mB[1]), RMul(v32, mB[2])), RMul(v33, mB[3]))
                 IN  Ok(XYZ(vX, vY, vZ)))))

\* only Parallel normals are answered with null
PlanePlane_OnlyParallel(planeA, planeB) ==
    Let2(Normal(planeA), Normal(planeB), LAMBDA normalA, normalB :
         IF IsParallel(normalA, normalB) = Parallel THEN Null
         ELSE LET normal == CrossProduct(normalB, normalA)
                  origin == Multiply(Add(planeA.Origin, planeB.Origin), Q(1, 2))
              IN  Let(CreateFromNormal(origin, normal), LAMBDA planeC :
                      IF planeC = Thrown THEN Thrown
                      ELSE Let(PlanePlanePlane(planeA, planeB, planeC), LAMBDA pt :
                               IF ~IsOk(pt) THEN Null
                               ELSE Ok(NewLine(pt.v, Add(pt.v, Normal(planeC)))))))

\* Intersection.PlanePlane(planeA, planeB); Plane.CreateFromNormal throws
\* when the cross product of the normals cannot be unitized
PlanePlane(planeA, planeB) ==
    Let2(Normal(planeA), Normal(planeB), LAMBDA normalA, normalB :
         IF IsParallel(normalA, normalB) # NotParallel THEN Null
         ELSE LET normal == CrossProduct(normalB, normalA)
                  origin == Multiply(Add(planeA.Origin, planeB.Origin), Q(1, 2))
              IN  Let(CreateFromNormal(origin, normal), LAMBDA planeC :
                      IF planeC = Thrown THEN Thrown
                      ELSE Let(PlanePlanePlane(planeA, planeB, planeC), LAMBDA pt :
                               IF ~IsOk(pt) THEN Null
                               ELSE Ok(NewLine(pt.v, Add(pt.v, Normal(planeC)))))))

-----------------------------------------------------------------------------
(* Inputs of the Intersection scenarios.  Directions and frames are drawn  *)
(* so that every length taken is rational.                                 *)

P3(x, y, z) == XYZ(R(x), R(y), R(z))

LineOrigins == {P3(0, 0, k) : k \in 0..MaxCoord} \cup {P3(2, 0, 0)}

\* unit, long, oblique, vertical, short (length 0.01), degenerate (zero and
\* shorter than EPSILON) directions
LineDirs ==
    { P3(1, 0, 0), P3(0, 1, 0), P3(-2, 0, 0), P3(3, 4, 0), P3(0, 0, 1),
      XYZ(Q(1, 100), RZero, RZero), XYZ(RZero, Q(1, 100), RZero),
      P3(0, 0, 0), XYZ(Q(1, 2000000), RZero, RZero) }

\* a point closer than EPSILON to the plane z = 0, and the directions of the
\* lines through it
NearOrigin == XYZ(RZero, RZero, Q(1, 2000000))
NearDirs == {P3(1, 0, 0), P3(0, 1, 0), P3(3, 4, 0)}

LineInputs ==
    {NewLine(o, Add(o, d)) : o \in LineOrigins, d \in LineDirs}
        \cup {NewLine(NearOrigin, Add(NearOrigin, d)) : d \in NearDirs}

Distances == {EPSILON, ROne}

PlaneFrames ==
    { <<P3(1, 0, 0), P3(0, 1, 0)>>, <<P3(0, 1, 0), P3(1, 0, 0)>>,
      <<P3(0, 1, 0), P3(0, 0, 1)>>, <<P3(0, 0, 1), P3(1, 0, 0)>>,
      <<P3(3, 4, 0), P3(0, 0, 2)>>, <<P3(0, 0, 1), P3(3, 4, 0)>>,
      <<P3(4, -3, 0), P3(0, 0, 1)>>, <<P3(2, 0, 0), P3(3, 4, 0)>> }

PlaneOrigins == {P3(0, 0, 0), P3(0, 0, MaxCoord), P3(1, 2, 3)}

PlaneInputs == {NewPlane(o, f[1], f[2]) : o \in PlaneOrigins, f \in PlaneFrames} \ {Thrown}

-----------------------------------------------------------------------------
(* The Intersection scenarios: one call of one Intersection function.      *)

InitIntersection ==
    /\ pc = "ready"
    /\ heap = <<>>
    /\ res = None
    /\ \/ \E l1 \in LineInputs, l2 \in LineInputs, lim \in BOOLEAN, d \in Distances :
            args = [op |-> "LineLine", l1 |-> l1, l2 |-> l2, limit |-> lim, distance |-> d]
       \/ \E l1 \in LineInputs, l2 \in LineInputs, lim \in BOOLEAN, d \in {Infinity, EPSILON} :
            args = [op |-> "CrossingLineLine", l1 |-> l1, l2 |-> l2, limit |-> lim, distance |-> d]
       \/ \E l \in LineInputs, pl \in PlaneInputs, lim \in BOOLEAN :
            args = [op |-> "LinePlane", line |-> l, plane |-> pl, limit |-> lim]
       \/ \E a \in PlaneInputs, b \in PlaneInputs :
            args = [op |-> "PlanePlane", a |-> a, b |-> b]
       \/ \E a \in PlaneInputs, b \in PlaneInputs, c \in PlaneInputs :
            args = [op |-> "PlanePlanePlane", a |-> a, b |-> b, c |-> c]

\* Intersection.LineLine(l1, l2, limit, distance)
CallLineLine ==
    /\ args.op = "LineLine" /\ pc = "ready"
    /\ res' = LineLine(args.l1, args.l2, args.limit, args.distance)
    /\ pc' = "done"
    /\ UNCHANGED <<args, heap>>

\* Intersection.CrossingLineLine(l1, l2, limit, distance)
CallCrossingLineLine ==
    /\ args.op = "CrossingLineLine" /\ pc = "ready"
    /\ res' = CrossingLineLine(args.l1, args.l2, args.limit, args.distance)
    /\ pc' = "done"
    /\ UNCHANGED <<args, heap>>

\* Intersection.LinePlane(line, plane, limit)
CallLinePlane ==
    /\ args.op = "LinePlane" /\ pc = "ready"
    /\ res' = LinePlane(args.line, args.plane, args.limit)
    /\ pc' = "done"
    /\ UNCHANGED <<args, heap>>

\* Intersection.PlanePlane(a, b)
CallPlanePlane ==
    /\ args.op = "PlanePlane" /\ pc = "ready"
    /\ res' = PlanePlane(args.a, args.b)
    /\ pc' = "done"
    /\ UNCHANGED <<args, heap>>

\* Intersection.PlanePlanePlane(a, b, c)
CallPlanePlanePlane ==
    /\ args.op = "PlanePlanePlane" /\ pc = "ready"
    /\ res' = PlanePlanePlane(args.a, args.b, args.c)
    /\ pc' = "done"
    /\ UNCHANGED <<args, heap>>

NextIntersection ==
    \/ CallLineLine
    \/ CallCrossingLineLine
    \/ CallLinePlane
    \/ CallPlanePlane
    \/ CallPlanePlanePlane

SpecIntersection == InitIntersection /\ [][NextIntersection]_vars

-----------------------------------------------------------------------------
(* Properties of Intersection.                                             *)

\* the parameters <<s, t>> of the closest-approach points of two lines with
\* non-parallel directions: the minimum of |From1 + s d1 - From2 - t d2|
ClosestParameters(l1, l2) ==
    LET d1 == Direction(l1)
        d2 == Direction(l2)
        w == SubtractPoint(l1.From, l2.From)
        a == DotProduct(d1, d1)
        b == DotProduct(d1, d2)
        c == DotProduct(d2, d2)
        d == DotProduct(d1, w)
        e == DotProduct(d2, w)
        den == RSub(RMul(a, c), RMul(b, b))
    IN  <<RDiv(RSub(RMul(b, e), RMul(c, d)), den),
          RDiv(RSub(RMul(a, e), RMul(b, d)), den)>>

\* the closest-approach points themselves
ClosestA(l1, l2) == Add(l1.From, Multiply(Direction(l1), ClosestParameters(l1, l2)[1]))
ClosestB(l1, l2) == Add(l2.From, Multiply(Direction(l2), ClosestParameters(l1, l2)[2]))

Midpoint(a, b) == Multiply(Add(a, b), Q(1, 2))

\* the directions of two valid lines are not parallel
NotParallelLines(l1, l2) ==
    /\ LineIsValid(l1) /\ LineIsValid(l2)
    /\ CrossProduct(Direction(l1), Direction(l2)) # ZeroVector

\* the code's own test: LineLineTParameters solves the pair
Solved(l1, l2) ==
    /\ LineIsValid(l1) /\ LineIsValid(l2)
    /\ IsOk(LineLineTParameters(l1, l2))

InUnit(t) == RLeq(RZero, t) /\ RLeq(t, ROne)

\* what LineLine has to answer on the infinite lines
MidpointOrNull(l1, l2, distance) ==
    IF RLess(distance, DistanceTo(ClosestA(l1, l2), ClosestB(l1, l2)))
    THEN Null
    ELSE Ok(Midpoint(ClosestA(l1, l2), ClosestB(l1, l2)))

\* C4: for two valid non-parallel lines, LineLine (infinite lines) is null
\* when the closest-approach points pointA, pointB are farther apart than
\* the tolerance, and is exactly the midpoint (pointA + pointB) / 2 otherwise.
C4_LineLineMidpoint ==
    (/\ args.op = "LineLine" /\ pc = "done"
     /\ ~args.limit
     /\ NotParallelLines(args.l1, args.l2)) =>
        res = MidpointOrNull(args.l1, args.l2, args.distance)

\* the same statement on the pairs the denominator test lets through
LineLineSolvedMidpoint ==
    (/\ args.op = "LineLine" /\ pc = "done"
     /\ ~args.limit
     /\ Solved(args.l1, args.l2)) =>
        res = MidpointOrNull(args.l1, args.l2, args.distance)

\* two perpendicular lines that meet, yet LineLine answered null
LineLineMissed ==
    /\ args.op = "LineLine" /\ pc = "done"
    /\ ~args.limit
    /\ NotParallelLines(args.l1, args.l2)
    /\ ClosestA(args.l1, args.l2) = ClosestB(args.l1, args.l2)
    /\ res = Null

\* the call of the scenario with limitToFiniteSegment = false
Unlimited ==
    IF args.op = "LineLine"
    THEN LineLine(args.l1, args.l2, FALSE, args.distance)
    ELSE CrossingLineLine(args.l1, args.l2, FALSE, args.distance)

\* C5: with limitToFiniteSegment = true, LineLine and CrossingLineLine give
\* a result only if both closest-approach parameters lie in [0, 1], endpoints
\* included; with a parameter outside [0, 1] the result is null even though
\* the infinite lines intersect; inside, the answer is that of the infinite
\* lines.
C5_FiniteSegmentGate ==
    (/\ args.op \in {"LineLine", "CrossingLineLine"} /\ pc = "done"
     /\ args.limit) =>
        /\ IsOk(res) =>
              /\ NotParallelLines(args.l1, args.l2)
              /\ InUnit(ClosestParameters(args.l1, args.l2)[1])
              /\ InUnit(ClosestParameters(args.l1, args.l2)[2])
              /\ res = Unlimited
        /\ (/\ IsOk(Unlimited)
            /\ InUnit(ClosestParameters(args.l1, args.l2)[1])
            /\ InUnit(ClosestParameters(args.l1, args.l2)[2])) => IsOk(res)

\* C5 witness: the infinite lines meet in a point, one parameter is outside
\* [0, 1], and the finite-segment call answered null
C5_Witness ==
    /\ args.op = "LineLine" /\ pc = "done"
    /\ args.limit
    /\ IsOk(Unlimited)
    /\ ClosestA(args.l1, args.l2) = ClosestB(args.l1, args.l2)
    /\ ~InUnit(ClosestParameters(args.l1, args.l2)[1])
    /\ res = Null

\* C6: PlanePlane(a, b) is null, and does not throw, whenever the normals
\* are parallel or anti-parallel (IsParallelTo other than NotParallel),
\* the same plane included.
C6_ParallelPlanesNull ==
    (/\ args.op = "PlanePlane" /\ pc = "done"
     /\ \/ IsParallel(Normal(args.a), Normal(args.b)) # NotParallel
        \/ args.a = args.b) =>
        res = Null

\* C6 witness: the same plane with opposite normals (anti-parallel)
C6_Witness ==
    /\ args.op = "PlanePlane" /\ pc = "done"
    /\ IsParallel(Normal(args.a), Normal(args.b)) = AntiParallel
    /\ args.a.Origin = args.b.Origin
    /\ res = Null

\* C7: LinePlane is null whenever the unit direction of the (valid) line is
\* perpendicular to the plane normal within EPSILON, for a line off the
\* plane and for a line lying in the plane.
C7_ParallelLineNull ==
    (/\ args.op = "LinePlane" /\ pc = "done"
     /\ LineIsValid(args.line)
     /\ EpsilonEquals(DotProduct(UnitDirection(args.line), Normal(args.plane)),
                      RZero, EPSILON)) =>
        res = Null

\* C7 witness: a valid oblique line lying entirely in a plane that does not
\* pass through the world origin
C7_Witness ==
    /\ args.op = "LinePlane" /\ pc = "done"
    /\ LineIsValid(args.line)
    /\ DotProduct(SubtractPoint(args.line.From, args.plane.Origin), Normal(args.plane)) = RZero
    /\ DotProduct(SubtractPoint(args.line.To, args.plane.Origin), Normal(args.plane)) = RZero
    /\ args.plane.Origin # ZeroVector
    /\ res = Null

\* the left side A x + B y + C z + D of a plane's equation at a point
PlaneValue(pl, p) ==
    RAdd(DotProduct(Normal(pl), p), RNeg(DotProduct(Normal(pl), pl.Origin)))

\* the determinant of the three normals as a triple product
NormalsDet(a, b, c) == DotProduct(Normal(a), CrossProduct(Normal(b), Normal(c)))

\* C8: PlanePlanePlane(a, b, c) is null when the determinant of the three
\* normals is epsilon-zero, and otherwise is the point that satisfies the
\* three plane equations A_i x + B_i y + C_i z + D_i = 0.
C8_ThreePlanesPoint ==
    (args.op = "PlanePlanePlane" /\ pc = "done") =>
        IF EpsilonEquals(NormalsDet(args.a, args.b, args.c), RZero, EPSILON)
        THEN res = Null
        ELSE /\ IsOk(res)
             /\ PlaneValue(args.a, res.v) = RZero
             /\ PlaneValue(args.b, res.v) = RZero
             /\ PlaneValue(args.c, res.v) = RZero

\* C8 witness: three planes with different origins, two of them oblique to
\* each other, meet in a point that is none of the origins
C8_Witness ==
    /\ args.op = "PlanePlanePlane" /\ pc = "done"
    /\ IsOk(res)
    /\ DotProduct(Normal(args.a), Normal(args.b)) \notin {RZero, ROne, R(-1)}
    /\ args.a.Origin # args.b.Origin /\ args.b.Origin # args.c.Origin
    /\ res.v \notin {args.a.Origin, args.b.Origin, args.c.Origin}

-----------------------------------------------------------------------------
(* BoundingBox over a heap of Point3d objects.  A reference is an index    *)
(* into `heap`, a sequence of [X, Y, Z] records; a box is a record         *)
(* [Min, Max] of references.  Operations that allocate return the new heap *)
(* with the box.                                                           *)

\* new Point3d(x, y, z)
NewPoint3d(h, x, y, z) == [heap |-> Append(h, XYZ(x, y, z)), ref |-> Len(h) + 1]

\* Point3d.Clone(): new Point3d(this.X, this.Y, this.Z)
Point3dClone(h, p) == NewPoint3d(h, h[p].X, h[p].Y, h[p].Z)

\* the corner points are stored by reference
NewBoundingBox_NoClone(h, min, max) == [heap |-> h, box |-> [Min |-> min, Max |-> max]]

\* new BoundingBox(min, max): this.Min = min.Clone(); this.Max = max.Clone()
NewBoundingBox(h, min, max) ==
    LET c1 == Point3dClone(h, min)
        c2 == Point3dClone(c1.heap, max)
    IN  [heap |-> c2.heap, box |-> [Min |-> c1.ref, Max |-> c2.ref]]

\* BoundingBox.CreateFromMinMax(minX, minY, minZ, maxX, maxY, maxZ)
CreateFromMinMax(h, minX, minY, minZ, maxX, maxY, maxZ) ==
    LET p1 == NewPoint3d(h, minX, minY, minZ)
        p2 == NewPoint3d(p1.heap, maxX, maxY, maxZ)
    IN  NewBoundingBox(p2.heap, p1.ref, p2.ref)

\* BoundingBox.Empty
Empty(h) == CreateFromMinMax(h, R(1), R(0), R(0), R(-1), R(0), R(0))

\* BoundingBox.IsValid
BoxIsValid(h, box) ==
    /\ RLeq(h[box.Min].X, h[box.Max].X)
    /\ RLeq(h[box.Min].Y, h[box.Max].Y)
    /\ RLeq(h[box.Min].Z, h[box.Max].Z)

\* BoundingBox.Clone(): new BoundingBox(this.Min, this.Max)
Clone(h, box) == NewBoundingBox(h, box.Min, box.Max)

\* the validity of the operands is not looked at
Intersect_Unchecked(h, a, b) ==
    CreateFromMinMax(h,
        RMax(h[a.Min].X, h[b.Min].X), RMax(h[a.Min].Y, h[b.Min].Y), RMax(h[a.Min].Z, h[b.Min].Z),
        RMin(h[a.Max].X, h[b.Max].X), RMin(h[a.Max].Y, h[b.Max].Y), RMin(h[a.Max].Z, h[b.Max].Z))

\* BoundingBox.Intersect(a, b)
Intersect(h, a, b) ==
    IF ~BoxIsValid(h, a) /\ ~BoxIsValid(h, b) THEN Empty(h)
    ELSE IF ~BoxIsValid(h, a) THEN Clone(h, b)
    ELSE IF ~BoxIsValid(h, b) THEN Clone(h, a)
    ELSE CreateFromMinMax(h,
        RMax(h[a.Min].X, h[b.Min].X), RMax(h[a.Min].Y, h[b.Min].Y), RMax(h[a.Min].Z, h[b.Min].Z),
        RMin(h[a.Max].X, h[b.Max].X), RMin(h[a.Max].Y, h[b.Max].Y), RMin(h[a.Max].Z, h[b.Max].Z))

\* BoundingBox.Union(a, b)
Union(h, a, b) ==
    IF ~BoxIsValid(h, a) /\ ~BoxIsValid(h, b) THEN Empty(h)
    ELSE IF ~BoxIsValid(h, a) THEN Clone(h, b)
    ELSE IF ~BoxIsValid(h, b) THEN Clone(h, a)
    ELSE CreateFromMinMax(h,
        RMin(h[a.Min].X, h[b.Min].X), RMin(h[a.Min].Y, h[b.Min].Y), RMin(h[a.Min].Z, h[b.Min].Z),
        RMax(h[a.Max].X, h[b.Max].X), RMax(h[a.Max].Y, h[b.Max].Y), RMax(h[a.Max].Z, h[b.Max].Z))

-----------------------------------------------------------------------------
(* The BoundingBox scenarios: two boxes a and b are constructed from the   *)
(* caller's points, one of Union, Intersect, Clone is called, and then the *)
(* caller writes to the boxes: a coordinate of a corner (b.Max.X = v) or a *)
(* corner itself (b.Max = p).                                              *)

MaxWrites == 1

Corners ==
    { P3(-MaxCoord, -MaxCoord, -MaxCoord), P3(0, 0, 0), P3(MaxCoord, MaxCoord, MaxCoord),
      P3(1, 0, 0), P3(-1, 0, 0) }

\* the value and the point the caller writes
Written == R(7)
WrittenPoint == P3(7, 8, 9)

Boxes == {"a", "b", "res"}

\* the box a name stands for
BoxOf(name) == IF name = "res" THEN res.v ELSE args[name]

\* the corner points a box has now
BoxValue(h, box) == [Min |-> h[box.Min], Max |-> h[box.Max]]

InitBox ==
    /\ pc = "ready"
    /\ res = None
    /\ \E aMin \in Corners, aMax \in Corners, bMin \in Corners, bMax \in Corners,
          op \in {"Union", "Intersect", "Clone"} :
            LET a == NewBoundingBox(<<aMin, aMax, bMin, bMax>>, 1, 2)
                b == NewBoundingBox(a.heap, 3, 4)
            IN  /\ op = "Clone" => (bMin = aMin /\ bMax = aMax)
                /\ heap = b.heap
                /\ args = [op |-> op, a |-> a.box, b |-> b.box, writes |-> 0,
                           aIn |-> [Min |-> aMin, Max |-> aMax],
                           bIn |-> [Min |-> bMin, Max |-> bMax]]

\* a.Union(b)
CallUnion ==
    /\ args.op = "Union" /\ pc = "ready"
    /\ LET r == Union(heap, args.a, args.b)
       IN  heap' = r.heap /\ res' = Ok(r.box)
    /\ pc' = "done"
    /\ UNCHANGED args

\* a.Intersect(b)
CallIntersect ==
    /\ args.op = "Intersect" /\ pc = "ready"
    /\ LET r == Intersect(heap, args.a, args.b)
       IN  heap' = r.heap /\ res' = Ok(r.box)
    /\ pc' = "done"
    /\ UNCHANGED args

\* a.Clone()
CallClone ==
    /\ args.op = "Clone" /\ pc = "ready"
    /\ LET r == Clone(heap, args.a)
       IN  heap' = r.heap /\ res' = Ok(r.box)
    /\ pc' = "done"
    /\ UNCHANGED args

\* box.Min.X = v, ..., box.Max.Z = v
SetCoordinate(name, corner, axis) ==
    /\ pc = "done" /\ args.writes < MaxWrites
    /\ heap' = [heap EXCEPT ![BoxOf(name)[corner]][axis] = Written]
    /\ args' = [args EXCEPT !.writes = @ + 1]
    /\ UNCHANGED <<pc, res>>

\* box.Min = p or box.Max = p, for a point p the caller made
SetCorner(name, corner) ==
    /\ pc = "done" /\ args.writes < MaxWrites
    /\ heap' = Append(heap, WrittenPoint)
    /\ IF name = "res"
       THEN /\ res' = [res EXCEPT !.v[corner] = Len(heap) + 1]
            /\ args' = [args EXCEPT !.writes = @ + 1]
       ELSE /\ args' = [args EXCEPT ![name][corner] = Len(heap) + 1, !.writes = @ + 1]
            /\ UNCHANGED res
    /\ UNCHANGED pc

\* any write of the caller to the named box
WriteTo(name) ==
    \/ \E corner \in {"Min", "Max"}, axis \in {"X", "Y", "Z"} : SetCoordinate(name, corner, axis)
    \/ \E corner \in {"Min", "Max"} : SetCorner(name, corner)

NextBox ==
    \/ CallUnion
    \/ CallIntersect
    \/ CallClone
    \/ \E name \in Boxes : WriteTo(name)

SpecBox == InitBox /\ [][NextBox]_vars

-----------------------------------------------------------------------------
(* Properties of BoundingBox.                                              *)

\* BoundingBox.IsValid on corner values
ValidValue(v) ==
    RLeq(v.Min.X, v.Max.X) /\ RLeq(v.Min.Y, v.Max.Y) /\ RLeq(v.Min.Z, v.Max.Z)

EmptyValue == [Min |-> P3(1, 0, 0), Max |-> P3(-1, 0, 0)]

\* exactly one operand of the call was invalid
OneInvalid == ValidValue(args.aIn) # ValidValue(args.bIn)

\* C9: Union and Intersect never compute through an invalid operand: with
\* exactly one operand invalid the result has the Min and Max of the valid
\* one; with both invalid the result is the Empty sentinel, Min = (1,0,0),
\* Max = (-1,0,0), which is not valid.
C9_InvalidOperandIgnored ==
    (args.op \in {"Union", "Intersect"} /\ pc = "done" /\ args.writes = 0) =>
        /\ (~ValidValue(args.aIn) /\ ~ValidValue(args.bIn)) =>
              /\ BoxValue(heap, res.v) = EmptyValue
              /\ ~BoxIsValid(heap, res.v)
        /\ (~ValidValue(args.aIn) /\ ValidValue(args.bIn)) =>
              BoxValue(heap, res.v) = args.bIn
        /\ (ValidValue(args.aIn) /\ ~ValidValue(args.bIn)) =>
              BoxValue(heap, res.v) = args.aIn

\* C9 witness: Intersect of a valid box with an invalid box that is not the
\* Empty sentinel and whose corners would have changed the result
C9_Witness ==
    /\ args.op = "Intersect" /\ pc = "done" /\ args.writes = 0
    /\ ValidValue(args.aIn) /\ ~ValidValue(args.bIn)
    /\ args.bIn # EmptyValue
    /\ BoxIsValid(heap, res.v)
    /\ BoxValue(Intersect_Unchecked(heap, args.a, args.b).heap,
                Intersect_Unchecked(heap, args.a, args.b).box) # args.aIn

\* C10: the box returned by Union or Intersect with one operand invalid, and
\* by Clone, shares no mutable state with the operands: a write to the
\* result's Min or Max, or to their coordinates, leaves the corner points of
\* both operands as they were, and a write to an operand leaves the result
\* (and the other operand) as it was.
C10_NoSharedState ==
    [][(args.op = "Clone" \/ OneInvalid) =>
          \A name \in Boxes :
              WriteTo(name) =>
                  \A other \in Boxes \ {name} :
                      BoxValue(heap', BoxOf(other)') = BoxValue(heap, BoxOf(other))]_vars

\* C10 witness: after Union with exactly one operand invalid, a write has
\* made the result and the valid operand differ
C10_Witness ==
    /\ args.op = "Union" /\ pc = "done"
    /\ OneInvalid
    /\ args.writes > 0
    /\ BoxValue(heap, res.v) # BoxValue(heap, IF ValidValue(args.aIn) THEN args.a ELSE args.b)

-----------------------------------------------------------------------------
(* BoundingBox queries: Transform, ClosestPoint, ContainsPoint.            *)

\* Number.MAX_VALUE and Number.MIN_VALUE (the smallest positive double,
\* 5e-324).  Neither is a rational the model can hold, so a denominator of 0
\* marks them, as it marks Infinity; Less compares them with the modelled
\* numbers, all of which lie strictly between -MAX_VALUE and MAX_VALUE and
\* are zero or of magnitude above MIN_VALUE.
MAX_VALUE == <<2, 0>>
MIN_VALUE == <<0, 0>>

\* a < b on doubles
Less(a, b) ==
    IF a = MAX_VALUE THEN FALSE
    ELSE IF b = MAX_VALUE THEN TRUE
    ELSE IF a = MIN_VALUE THEN b # MIN_VALUE /\ RLess(RZero, b)
    ELSE IF b = MIN_VALUE THEN RLeq(a, RZero)
    ELSE RLess(a, b)

\* BoundingBox.GetCorners(): eight new points, in the order c0..c7
GetCorners(h, box) ==
    LET min == h[box.Min]
        max == h[box.Max]
    IN  << XYZ(min.X, min.Y, min.Z), XYZ(max.X, min.Y, min.Z),
           XYZ(max.X, max.Y, min.Z), XYZ(min.X, max.Y, min.Z),
           XYZ(min.X, min.Y, max.Z), XYZ(max.X, min.Y, max.Z),
           XYZ(max.X, max.Y, max.Z), XYZ(min.X, max.Y, max.Z) >>

\* the loop of CreateFromPoints for one running minimum:
\* if (p[axis] < min) min = p[axis]
RECURSIVE LoopMin(_, _, _, _)
LoopMin(points, axis, i, min) ==
    IF i > Len(points) THEN min
    ELSE LoopMin(points, axis, i + 1,
                 IF Less(points[i][axis], min) THEN points[i][axis] ELSE min)

\* the loop of CreateFromPoints for one running maximum:
\* if (p[axis] > max) max = p[axis]
RECURSIVE LoopMax(_, _, _, _)
LoopMax(points, axis, i, max) ==
    IF i > Len(points) THEN max
    ELSE LoopMax(points, axis, i + 1,
                 IF Less(max, points[i][axis]) THEN points[i][axis] ELSE max)

\* BoundingBox.CreateFromPoints(points): the minima start at
\* Number.MAX_VALUE, the maxima at Number.MIN_VALUE
CreateFromPoints(h, points) ==
    CreateFromMinMax(h,
        LoopMin(points, "X", 1, MAX_VALUE), LoopMin(points, "Y", 1, MAX_VALUE),
        LoopMin(points, "Z", 1, MAX_VALUE),
        LoopMax(points, "X", 1, MIN_VALUE), LoopMax(points, "Y", 1, MIN_VALUE),
        LoopMax(points, "Z", 1, MIN_VALUE))

\* BoundingBox.Transform(transform): the corners are mapped with
\* Point3d.Transform and re-enclosed
BoxTransform(h, box, m) ==
    CreateFromPoints(h, [i \in 1..8 |-> PointApply(GetCorners(h, box)[i], m)])


\* Math.min(a, b) on doubles
MathMin(a, b) == IF Less(b, a) THEN b ELSE a

\* the first part of ClosestPoint: one coordinate moved into [min, max]
ClampInto(v, min, max) == IF Less(v, min) THEN min ELSE IF Less(max, v) THEN max ELSE v

\* the result is the clamped point, whatever includeInterior is
ClosestPoint_NoSnap(h, box, testPoint, includeInterior) ==
    LET min == h[box.Min]
        max == h[box.Max]
    IN  XYZ(ClampInto(testPoint.X, min.X, max.X), ClampInto(testPoint.Y, min.Y, max.Y),
            ClampInto(testPoint.Z, min.Z, max.Z))

\* every axis is snapped to the nearer of its two faces
ClosestPoint_EveryAxis(h, box, testPoint, includeInterior) ==
    LET min == h[box.Min]
        max == h[box.Max]
    IN  Let3(ClampInto(testPoint.X, min.X, max.X), ClampInto(testPoint.Y, min.Y, max.Y),
             ClampInto(testPoint.Z, min.Z, max.Z), LAMBDA x, y, z :
             IF includeInterior THEN XYZ(x, y, z)
             ELSE XYZ(IF Less(RSub(x, min.X), RSub(max.X, x)) THEN min.X ELSE max.X,
                      IF Less(RSub(y, min.Y), RSub(max.Y, y)) THEN min.Y ELSE max.Y,
                      IF Less(RSub(z, min.Z), RSub(max.Z, z)) THEN min.Z ELSE max.Z))

\* BoundingBox.ClosestPoint(testPoint, includeInterior): clamp, then, when
\* the interior is excluded, move the first coordinate (in the order x to
\* Min, x to Max, y to Min, ...) whose face distance is the least one
ClosestPoint(h, box, testPoint, includeInterior) ==
    LET min == h[box.Min]
        max == h[box.Max]
    IN  Let3(ClampInto(testPoint.X, min.X, max.X), ClampInto(testPoint.Y, min.Y, max.Y),
             ClampInto(testPoint.Z, min.Z, max.Z), LAMBDA x, y, z :
             IF includeInterior THEN XYZ(x, y, z)
             ELSE Let(MathMin(MathMin(MathMin(MathMin(MathMin(MathMin(MAX_VALUE,
                          RSub(x, min.X)), RSub(max.X, x)), RSub(y, min.Y)),
                          RSub(max.Y, y)), RSub(z, min.Z)), RSub(max.Z, z)),
                      LAMBDA minimumDistance :
                      IF RSub(x, min.X) = minimumDistance THEN XYZ(min.X, y, z)
                      ELSE IF RSub(max.X, x) = minimumDistance THEN XYZ(max.X, y, z)
                      ELSE IF RSub(y, min.Y) = minimumDistance THEN XYZ(x, min.Y, z)
                      ELSE IF RSub(max.Y, y) = minimumDistance THEN XYZ(x, max.Y, z)
                      ELSE IF RSub(z, min.Z) = minimumDistance THEN XYZ(x, y, min.Z)
                      ELSE IF RSub(max.Z, z) = minimumDistance THEN XYZ(x, y, max.Z)
                      ELSE XYZ(x, y, z)))

\* BoundingBox.ContainsPoint(testPoint, strict): the closed comparisons are
\* the ones made when strict is true, the open ones when it is false
ContainsPoint(h, box, testPoint, strict) ==
    LET min == h[box.Min]
        max == h[box.Max]
        x == testPoint.X
        y == testPoint.Y
        z == testPoint.Z
    IN  IF strict
        THEN /\ ~Less(x, min.X) /\ ~Less(max.X, x)
             /\ ~Less(y, min.Y) /\ ~Less(max.Y, y)
             /\ ~Less(z, min.Z) /\ ~Less(max.Z, z)
        ELSE /\ Less(min.X, x) /\ Less(x, max.X)
             /\ Less(min.Y, y) /\ Less(y, max.Y)
             /\ Less(min.Z, z) /\ Less(z, max.Z)

-----------------------------------------------------------------------------
(* The BoundingBox query scenarios: a box is constructed, then one of      *)
(* Transform, ClosestPoint, ContainsPoint is called on it.                 *)

QueryCorners == Corners \cup {XYZ(R(-1), Q(-1, 2), R(0)), XYZ(Q(1, 2), R(1), R(MaxCoord + 1))}

QueryPoints == Points \cup {P3(MaxCoord + 1, 0, 0), P3(0, -MaxCoord - 1, 1), XYZ(Q(1, 4), R(0), Q(3, 4))}

InitQuery ==
    /\ pc = "ready"
    /\ res = None
    /\ \E min \in QueryCorners, max \in QueryCorners :
          LET b == NewBoundingBox(<<min, max>>, 1, 2)
          IN  /\ heap = b.heap
              /\ \/ \E T \in XformInputs :
                        args = [op |-> "Transform", box |-> b.box, T |-> T]
                 \/ \E p \in QueryPoints, includeInterior \in BOOLEAN :
                        args = [op |-> "ClosestPoint", box |-> b.box, p |-> p,
                                includeInterior |-> includeInterior]
                 \/ \E p \in QueryPoints, strict \in BOOLEAN :
                        args = [op |-> "ContainsPoint", box |-> b.box, p |-> p,
                                strict |-> strict]

\* box.Transform(T)
CallBoxTransform ==
    /\ args.op = "Transform" /\ pc = "ready"
    /\ LET r == BoxTransform(heap, args.box, args.T)
       IN  heap' = r.heap /\ res' = Ok(r.box)
    /\ pc' = "done"
    /\ UNCHANGED args

\* box.ClosestPoint(p, includeInterior)
CallClosestPoint ==
    /\ args.op = "ClosestPoint" /\ pc = "ready"
    /\ res' = Ok(ClosestPoint(heap, args.box, args.p, args.includeInterior))
    /\ pc' = "done"
    /\ UNCHANGED <<args, heap>>

\* box.ContainsPoint(p, strict)
CallContainsPoint ==
    /\ args.op = "ContainsPoint" /\ pc = "ready"
    /\ res' = Ok(ContainsPoint(heap, args.box, args.p, args.strict))
    /\ pc' = "done"
    /\ UNCHANGED <<args, heap>>

NextQuery ==
    \/ CallBoxTransform
    \/ CallClosestPoint
    \/ CallContainsPoint

SpecQuery == InitQuery /\ [][NextQuery]_vars

-----------------------------------------------------------------------------
(* Properties of the BoundingBox queries.                                  *)

Axes == {"X", "Y", "Z"}

\* the images of the eight corners of the box the call was made on
TransformedCorners == {PointApply(GetCorners(heap, args.box)[i], args.T) : i \in 1..8}

Transformed == args.op = "Transform" /\ pc = "done" /\ BoxIsValid(heap, args.box)

\* C11: for a valid box and any transform, Transform returns the box whose
\* Min is the componentwise minimum and whose Max is the componentwise
\* maximum of the eight transformed corners, so that every transformed
\* corner lies in it.
C11_TransformRefit ==
    Transformed =>
        \A axis \in Axes :
            /\ \E c \in TransformedCorners : c[axis] = BoxValue(heap, res.v).Min[axis]
            /\ \E c \in TransformedCorners : c[axis] = BoxValue(heap, res.v).Max[axis]
            /\ \A c \in TransformedCorners :
                   /\ RLeq(BoxValue(heap, res.v).Min[axis], c[axis])
                   /\ RLeq(c[axis], BoxValue(heap, res.v).Max[axis])

\* the Min corner alone is the componentwise minimum
TransformRefitMin ==
    Transformed =>
        \A axis \in Axes :
            /\ \E c \in TransformedCorners : c[axis] = BoxValue(heap, res.v).Min[axis]
            /\ \A c \in TransformedCorners : RLeq(BoxValue(heap, res.v).Min[axis], c[axis])

\* a box whose images are all negative in x gets Number.MIN_VALUE as Max.X
TransformMissed ==
    /\ Transformed
    /\ \A c \in TransformedCorners : RLess(c.X, RZero)
    /\ BoxValue(heap, res.v).Max.X = MIN_VALUE

-----------------------------------------------------------------------------
(* Plane queries and Transform.PlanarProjection.                           *)

\* Line.ClosestParameter(testPoint, limitToFiniteSegment), which throws on
\* an invalid line
ClosestParameter(l, testPoint, limitToFiniteSegment) ==
    IF ~LineIsValid(l) THEN Thrown
    ELSE Let2(SubtractPoint(testPoint, l.From), SubtractPoint(l.To, l.From),
              LAMBDA startToP, startToEnd :
              Let(RDiv(DotProduct(startToEnd, startToP), DotProduct(startToEnd, startToEnd)),
                  LAMBDA t :
                  Ok(IF limitToFiniteSegment THEN Clamp(t, RZero, ROne) ELSE t)))

\* Plane.XAxisLine and Plane.YAxisLine
XAxisLine(pl) == NewLine(pl.Origin, Add(pl.Origin, pl.XAxis))
YAxisLine(pl) == NewLine(pl.Origin, Add(pl.Origin, pl.YAxis))

\* Plane.PointAt(u, v)
PlanePointAt(pl, u, v) == Add(Add(pl.Origin, Multiply(pl.XAxis, u)), Multiply(pl.YAxis, v))

\* Plane.ClosestParameter(testPoint): [u, v]
PlaneClosestParameter(pl, testPoint) ==
    Let2(ClosestParameter(XAxisLine(pl), testPoint, FALSE),
         ClosestParameter(YAxisLine(pl), testPoint, FALSE), LAMBDA u, v :
         IF u = Thrown \/ v = Thrown THEN Thrown ELSE Ok(<<u.v, v.v>>))

\* Plane.ClosestPoint(testPoint)
PlaneClosestPoint(pl, testPoint) ==
    Let(PlaneClosestParameter(pl, testPoint), LAMBDA uv :
        IF uv = Thrown THEN Thrown ELSE Ok(PlanePointAt(pl, uv.v[1], uv.v[2])))

\* Plane.PlanePointDistance(plane, point)
PlanePointDistance(plane, point) ==
    Let(PlaneClosestPoint(plane, point), LAMBDA closest :
        IF closest = Thrown THEN Thrown ELSE Ok(DistanceTo(point, closest.v)))

\* Plane.DistanceTo(other) for a Point3d
PlaneDistanceTo(pl, other) == PlanePointDistance(pl, other)

\* Plane.SignedDistanceTo(otherPoint)
SignedDistanceTo(pl, otherPoint) ==
    Let2(SubtractPoint(otherPoint, pl.Origin), PlaneClosestPoint(pl, otherPoint),
         LAMBDA vec, closest :
         IF closest = Thrown THEN Thrown
         ELSE Let(DistanceTo(otherPoint, closest.v), LAMBDA distance :
                  Ok(IF RLess(RZero, DotProduct(vec, pl.ZAxis))
                     THEN distance ELSE RNeg(distance))))

\* Transform.PlanarProjection(plane); the translation column is computed as
\* p.X - n11 * p.X + n12 * p.Y + n13 * p.Z, with the usual precedence
PlanarProjection(plane) ==
    LET x == plane.XAxis
        y == plane.YAxis
        p == plane.Origin
    IN  Let3(<<RAdd(RMul(x.X, x.X), RMul(y.X, y.X)), RAdd(RMul(x.X, x.Y), RMul(y.X, y.Y)),
               RAdd(RMul(x.X, x.Z), RMul(y.X, y.Z))>>,
             <<RAdd(RMul(x.Y, x.X), RMul(y.Y, y.X)), RAdd(RMul(x.Y, x.Y), RMul(y.Y, y.Y)),
               RAdd(RMul(x.Y, x.Z), RMul(y.Y, y.Z))>>,
             <<RAdd(RMul(x.Z, x.X), RMul(y.Z, y.X)), RAdd(RMul(x.Z, x.Y), RMul(y.Z, y.Y)),
               RAdd(RMul(x.Z, x.Z), RMul(y.Z, y.Z))>>,
             LAMBDA n1, n2, n3 :
             LET n14 == RAdd(RAdd(RSub(p.X, RMul(n1[1], p.X)), RMul(n1[2], p.Y)), RMul(n1[3], p.Z))
                 n24 == RAdd(RAdd(RSub(p.Y, RMul(n2[1], p.X)), RMul(n2[2], p.Y)), RMul(n2[3], p.Z))
                 n34 == RAdd(RAdd(RSub(p.Z, RMul(n3[1], p.X)), RMul(n3[2], p.Y)), RMul(n3[3], p.Z))
             IN  <<n1[1], n1[2], n1[3], n14, n2[1], n2[2], n2[3], n24,
                   n3[1], n3[2], n3[3], n34, RZero, RZero, RZero, ROne>>)

-----------------------------------------------------------------------------
(* The Plane scenarios: a point of the plane is projected with the plane's *)
(* PlanarProjection; the distance of a point to the plane is taken.        *)

PlaneParameters == {R(i) : i \in -1..MaxCoord} \cup {Q(1, 2)}

PlaneTestPoints ==
    { P3(0, 0, 0), P3(1, 2, 3), P3(-3, 2, 5), P3(3, -2, -3), P3(0, 0, -1), P3(1, 0, 0),
      P3(0, MaxCoord + 1, 0) }

InitPlane ==
    /\ pc = "ready"
    /\ res = None
    /\ heap = <<>>
    /\ \E pl \in PlaneInputs :
          \/ \E u \in PlaneParameters, v \in PlaneParameters :
                args = [op |-> "PlanarProjection", plane |-> pl, q |-> PlanePointAt(pl, u, v)]
          \/ \E p \in PlaneTestPoints, op \in {"DistanceTo", "SignedDistanceTo"} :
                args = [op |-> op, plane |-> pl, p |-> p]

\* q.Transform(Transform.PlanarProjection(plane))
CallPlanarProjection ==
    /\ args.op = "PlanarProjection" /\ pc = "ready"
    /\ res' = Ok(PointApply(args.q, PlanarProjection(args.plane)))
    /\ pc' = "done"
    /\ UNCHANGED <<args, heap>>

\* plane.DistanceTo(p)
CallDistanceTo ==
    /\ args.op = "DistanceTo" /\ pc = "ready"
    /\ res' = PlaneDistanceTo(args.plane, args.p)
    /\ pc' = "done"
    /\ UNCHANGED <<args, heap>>

\* plane.SignedDistanceTo(p)
CallSignedDistanceTo ==
    /\ args.op = "SignedDistanceTo" /\ pc = "ready"
    /\ res' = SignedDistanceTo(args.plane, args.p)
    /\ pc' = "done"
    /\ UNCHANGED <<args, heap>>

NextPlane ==
    \/ CallPlanarProjection
    \/ CallDistanceTo
    \/ CallSignedDistanceTo

SpecPlane == InitPlane /\ [][NextPlane]_vars

-----------------------------------------------------------------------------
(* Properties of the Plane scenarios.                                      *)

Projected == args.op = "PlanarProjection" /\ pc = "done"

\* C12: for every plane, whatever its origin, and every point q on it,
\* q.Transform(Transform.PlanarProjection(plane)) equals q.
C12_ProjectionKeepsPlanePoints ==
    Projected => PointEquals(res.v, args.q)

\* the points of a plane through the world origin are kept
ProjectionKeepsOriginPlanePoints ==
    (Projected /\ args.plane.Origin = P3(0, 0, 0)) => res.v = args.q

\* a point of a plane away from the world origin is moved
ProjectionMoved ==
    /\ Projected
    /\ args.plane.Origin # P3(0, 0, 0)
    /\ ~PointEquals(res.v, args.q)

\* (point - Origin) . Normal, the signed distance of the point to the plane
Offset == DotProduct(SubtractPoint(args.p, args.plane.Origin), Normal(args.plane))

\* C18: Plane.DistanceTo(point) is signed: its absolute value is the
\* distance from the point to its closest point on the plane, and it is
\* negative exactly when (point - Origin) . Normal < 0.
C18_DistanceSigned ==
    (args.op = "DistanceTo" /\ pc = "done") =>
        /\ IsOk(res)
        /\ RAbs(res.v) = RAbs(Offset)
        /\ RLess(res.v, RZero) <=> RLess(Offset, RZero)

\* Plane.SignedDistanceTo is signed in that way
SignedDistanceSigned ==
    (args.op = "SignedDistanceTo" /\ pc = "done") =>
        /\ IsOk(res)
        /\ RAbs(res.v) = RAbs(Offset)
        /\ RLess(res.v, RZero) <=> RLess(Offset, RZero)

\* Plane.DistanceTo answers a point below the plane with a positive number
DistanceUnsigned ==
    /\ args.op = "DistanceTo" /\ pc = "done"
    /\ RLess(Offset, RZero)
    /\ IsOk(res) /\ RLess(RZero, res.v)

-----------------------------------------------------------------------------
(* Line.PointAtLength and the Polyline evaluations.  A polyline is the     *)
(* sequence of its points; Get(i) of the code is points[i + 1].            *)

\* Line.PointAtLength(distance), which throws on an invalid line
PointAtLength(l, distance) ==
    IF ~LineIsValid(l) THEN Thrown
    ELSE Ok(Add(Multiply(UnitDirection(l), distance), l.From))

\* Math.floor of a rational
Floor(t) == t[1] \div t[2]

\* Point3dList.Count, Point3dList.Get(index), Point3dList.First
Count(points) == Len(points)
Get(points, index) == points[index + 1]
First(points) == points[1]

\* Point3d.Origin
Origin == XYZ(RZero, RZero, RZero)

\* the interpolation of one coordinate in Polyline.PointAt
Interpolate(a, b, s, t) == IF a = b THEN a ELSE RAdd(RMul(s, a), RMul(t, b))

\* Polyline.PointAt evaluating the first and the last segment beyond their ends
PolylinePointAt_Extrapolate(points, t) ==
    IF Count(points) < 1 THEN Origin
    ELSE IF Count(points) = 1 THEN First(points)
    ELSE LET idx == IF Floor(t) < 0 THEN 0
                    ELSE IF Floor(t) >= Count(points) - 1 THEN Count(points) - 2
                    ELSE Floor(t)
             A == Get(points, idx)
             B == Get(points, idx + 1)
             u == RSub(t, R(idx))
             s == RSub(ROne, u)
         IN  XYZ(Interpolate(A.X, B.X, s, u), Interpolate(A.Y, B.Y, s, u),
                 Interpolate(A.Z, B.Z, s, u))

\* Polyline.PointAt(t)
PolylinePointAt(points, t) ==
    LET count == Count(points)
        idx == Floor(t)
    IN  IF count < 1 THEN Origin
        ELSE IF count = 1 THEN First(points)
        ELSE IF idx < 0 THEN Get(points, 0)
        ELSE IF idx >= count - 1 THEN Get(points, count - 1)
        ELSE LET u == RSub(t, R(idx))
                 A == Get(points, idx)
                 B == Get(points, idx + 1)
                 s == RSub(ROne, u)
             IN  IF RLeq(u, RZero) THEN Get(points, idx)
                 ELSE IF RLeq(ROne, u) THEN Get(points, idx + 1)
                 ELSE XYZ(Interpolate(A.X, B.X, s, u), Interpolate(A.Y, B.Y, s, u),
                          Interpolate(A.Z, B.Z, s, u))

\* Vector3d.IsTiny() with the default tolerance
IsTiny(v) ==
    /\ RLeq(RAbs(v.X), EPSILON)
    /\ RLeq(RAbs(v.Y), EPSILON)
    /\ RLeq(RAbs(v.Z), EPSILON)

\* the square of Point3d.DistanceTo(other); distances are only compared, and
\* the root preserves their order
DistanceSquared(a, b) ==
    Let(SubtractPoint(a, b), LAMBDA v : DotProduct(v, v))

\* the clamp of the segment parameter in Polyline.ClosestParameter
ClampSegment(t) == IF RLeq(t, RZero) THEN RZero ELSE IF RLess(ROne, t) THEN ROne ELSE t

\* the loop of Polyline.ClosestParameter from segment i on; seg.Direction
\* throws on a segment whose ends are equal
RECURSIVE ClosestLoop(_, _, _, _, _, _)
ClosestLoop(points, testPoint, i, sMin, tMin, dMin) ==
    IF i >= Count(points) - 1 THEN Ok(RAdd(R(sMin), tMin))
    ELSE Let(NewLine(Get(points, i), Get(points, i + 1)), LAMBDA seg :
         IF ~LineIsValid(seg) THEN Thrown
         ELSE Let(IF IsTiny(Direction(seg)) THEN RZero
                  ELSE ClampSegment(ClosestParameter(seg, testPoint, FALSE).v),
                  LAMBDA t :
              Let(IF IsTiny(Direction(seg)) THEN DistanceSquared(Get(points, i), testPoint)
                  ELSE DistanceSquared(PointAt(seg, t), testPoint),
                  LAMBDA d :
                  IF Less(d, dMin)
                  THEN ClosestLoop(points, testPoint, i + 1, i, t, d)
                  ELSE ClosestLoop(points, testPoint, i + 1, sMin, tMin, dMin))))

\* the loop with `d <= dMin`: among equally near segments the last one wins
RECURSIVE ClosestLoop_LastWins(_, _, _, _, _, _)
ClosestLoop_LastWins(points, testPoint, i, sMin, tMin, dMin) ==
    IF i >= Count(points) - 1 THEN Ok(RAdd(R(sMin), tMin))
    ELSE Let(NewLine(Get(points, i), Get(points, i + 1)), LAMBDA seg :
         IF ~LineIsValid(seg) THEN Thrown
         ELSE Let(ClampSegment(ClosestParameter(seg, testPoint, FALSE).v), LAMBDA t :
              Let(DistanceSquared(PointAt(seg, t), testPoint), LAMBDA d :
                  IF ~Less(dMin, d)
                  THEN ClosestLoop_LastWins(points, testPoint, i + 1, i, t, d)
                  ELSE ClosestLoop_LastWins(points, testPoint, i + 1, sMin, tMin, dMin))))

PolylineClosestParameter_LastWins(points, testPoint) ==
    IF Count(points) < 2 THEN Ok(RZero)
    ELSE ClosestLoop_LastWins(points, testPoint, 0, 0, RZero, MAX_VALUE)

\* Polyline.ClosestParameter(testPoint)
PolylineClosestParameter(points, testPoint) ==
    IF Count(points) < 2 THEN Ok(RZero)
    ELSE ClosestLoop(points, testPoint, 0, 0, RZero, MAX_VALUE)

\* Polyline.ClosestPoint(testPoint)
PolylineClosestPoint(points, testPoint) ==
    Let(PolylineClosestParameter(points, testPoint), LAMBDA t :
        IF t = Thrown THEN Thrown ELSE Ok(PolylinePointAt(points, t.v)))

-----------------------------------------------------------------------------
(* The curve scenarios: one evaluation of a line or of a polyline.         *)

Lengths == {R(-1), RZero, Q(1, 2), ROne, R(MaxCoord + 1)}

PolylinePoints == {P3(0, 0, 0), P3(MaxCoord, 0, 0), P3(MaxCoord, MaxCoord, 0), P3(0, 2, 1)}

\* a point closer than EPSILON to the origin
NearZero == XYZ(Q(1, 2000000), RZero, RZero)

\* every polyline of up to MaxList points, consecutive duplicates included
Polylines == SeqsUpTo(PolylinePoints, MaxList)

\* polylines whose last segment is shorter than EPSILON
NearPolylines ==
    {<<P3(0, 0, 0), NearZero>>} \cup {<<p, P3(0, 0, 0), NearZero>> : p \in PolylinePoints}

PolylineParameters ==
    {R(i) : i \in -2..(MaxList + 1)} \cup {Q(-1, 2), Q(1, 2), Q(1, 4), Q(3, 2), Q(5, 2)}

PolylineTestPoints == {P3(0, 0, 0), XYZ(Q(1, 2), ROne, RZero), P3(2, 1, 0), P3(0, -1, 1)}

InitCurve ==
    /\ pc = "ready"
    /\ res = None
    /\ heap = <<>>
    /\ \/ \E l \in LineInputs, d \in Lengths :
             args = [op |-> "PointAtLength", line |-> l, distance |-> d]
       \/ \E pl \in Polylines, t \in PolylineParameters :
             args = [op |-> "PointAt", polyline |-> pl, t |-> t]
       \/ \E pl \in Polylines \cup NearPolylines, p \in PolylineTestPoints,
             op \in {"ClosestParameter", "ClosestPoint"} :
             args = [op |-> op, polyline |-> pl, p |-> p]

\* line.PointAtLength(distance)
CallPointAtLength ==
    /\ args.op = "PointAtLength" /\ pc = "ready"
    /\ res' = PointAtLength(args.line, args.distance)
    /\ pc' = "done"
    /\ UNCHANGED <<args, heap>>

\* polyline.PointAt(t)
CallPolylinePointAt ==
    /\ args.op = "PointAt" /\ pc = "ready"
    /\ res' = Ok(PolylinePointAt(args.polyline, args.t))
    /\ pc' = "done"
    /\ UNCHANGED <<args, heap>>

\* polyline.ClosestParameter(p)
CallPolylineClosestParameter ==
    /\ args.op = "ClosestParameter" /\ pc = "ready"
    /\ res' = PolylineClosestParameter(args.polyline, args.p)
    /\ pc' = "done"
    /\ UNCHANGED <<args, heap>>

\* polyline.ClosestPoint(p)
CallPolylineClosestPoint ==
    /\ args.op = "ClosestPoint" /\ pc = "ready"
    /\ res' = PolylineClosestPoint(args.polyline, args.p)
    /\ pc' = "done"
    /\ UNCHANGED <<args, heap>>

NextCurve ==
    \/ CallPointAtLength
    \/ CallPolylinePointAt
    \/ CallPolylineClosestParameter
    \/ CallPolylineClosestPoint

SpecCurve == InitCurve /\ [][NextCurve]_vars

-----------------------------------------------------------------------------
(* Properties of the curve scenarios.                                      *)

\* C13: Line.PointAtLength(d) on a degenerate line (From equal to To within
\* epsilon) returns the From point for every d and does not throw.
C13_DegeneratePointAtLength ==
    (pc = "done" /\ args.op = "PointAtLength" /\ ~LineIsValid(args.line))
        => res = Ok(args.line.From)

\* PointAtLength on a valid line returns From + UnitDirection * d
ValidPointAtLength ==
    (pc = "done" /\ args.op = "PointAtLength" /\ LineIsValid(args.line))
        => /\ IsOk(res)
           /\ res.v = Add(Multiply(UnitDirection(args.line), args.distance), args.line.From)

\* PointAtLength has thrown on a line whose ends are equal
DegeneratePointAtLengthThrown ==
    /\ pc = "done" /\ args.op = "PointAtLength"
    /\ args.line.From = args.line.To
    /\ res = Thrown

-----------------------------------------------------------------------------
(* Properties of Transform.TryGetInverse and Transform.Determinant.        *)

\* C14: TryGetInverse returns null if and only if the transform's
\* Determinant is exactly 0; it never throws, and for every non-zero
\* determinant, however small, it returns a transform.
C14_NullIffDeterminantZero ==
    (args.op = "TryGetInverse" /\ pc = "done") =>
        /\ res # Thrown
        /\ (res = Null) <=> (Determinant(args.T) = RZero)
        /\ (Determinant(args.T) # RZero) => (IsOk(res) /\ Len(res.v) = 16)

\* C14 witness: a transform whose determinant is non-zero and smaller than
\* EPSILON was inverted
C14_Witness ==
    /\ args.op = "TryGetInverse" /\ pc = "done"
    /\ Determinant(args.T) # RZero
    /\ EpsilonEquals(Determinant(args.T), RZero, EPSILON)
    /\ IsOk(res)

-----------------------------------------------------------------------------
(* Properties of BoundingBox.ClosestPoint and BoundingBox.ContainsPoint.   *)

\* ClosestPoint(p, false) has been called on a valid box
SurfaceQueried ==
    /\ args.op = "ClosestPoint" /\ pc = "done"
    /\ ~args.includeInterior
    /\ BoxIsValid(heap, args.box)

QueryBox == BoxValue(heap, args.box)

\* the test point moved into the box, coordinate by coordinate
Clamped ==
    [axis \in Axes |-> RMax(QueryBox.Min[axis], RMin(QueryBox.Max[axis], args.p[axis]))]

\* min < p < max on every axis; min <= p <= max on every axis
StrictlyInside(p) ==
    \A axis \in Axes : RLess(QueryBox.Min[axis], p[axis]) /\ RLess(p[axis], QueryBox.Max[axis])
InsideOrOn(p) ==
    \A axis \in Axes : RLeq(QueryBox.Min[axis], p[axis]) /\ RLeq(p[axis], QueryBox.Max[axis])
OnSurface(p) == InsideOrOn(p) /\ ~StrictlyInside(p)

\* the distances of the clamped point to the six faces
FaceDistances ==
    {RSub(Clamped[axis], QueryBox.Min[axis]) : axis \in Axes}
        \cup {RSub(QueryBox.Max[axis], Clamped[axis]) : axis \in Axes}

\* the statement of C15 as the specification has it: every coordinate of
\* the result equals the box's Min or Max on its axis
C15_Original ==
    SurfaceQueried =>
        \A axis \in Axes : res.v[axis] \in {QueryBox.Min[axis], QueryBox.Max[axis]}

\* C15: for a valid box, ClosestPoint(p, includeInterior = false) first
\* clamps p into the box and then snaps one axis only, an axis with a face
\* at the least distance from the clamped point, to that face; the other
\* two coordinates of the result are the clamped ones.
C15_SnapsNearestAxis ==
    SurfaceQueried =>
        \E axis \in Axes :
            /\ res.v[axis] \in {QueryBox.Min[axis], QueryBox.Max[axis]}
            /\ \A d \in FaceDistances : RLeq(RAbs(RSub(res.v[axis], Clamped[axis])), d)
            /\ \A other \in Axes \ {axis} : res.v[other] = Clamped[other]

\* C15 witness: the point was strictly inside and two coordinates of the
\* result lie strictly between Min and Max
C15_Witness ==
    /\ SurfaceQueried
    /\ StrictlyInside(args.p)
    /\ Cardinality({axis \in Axes :
            res.v[axis] \notin {QueryBox.Min[axis], QueryBox.Max[axis]}}) = 2

\* points of the surface that the result is compared with: every
\* combination of Min, Max, the clamped and the grid coordinates
SurfaceCandidates ==
    LET values(axis) ==
            {QueryBox.Min[axis], QueryBox.Max[axis], Clamped[axis]}
                \cup {c \in Coord : RLeq(QueryBox.Min[axis], c) /\ RLeq(c, QueryBox.Max[axis])}
    IN  {s \in {XYZ(x, y, z) : x \in values("X"), y \in values("Y"), z \in values("Z")} :
            OnSurface(s)}

\* C16: for a valid box and any test point p, ClosestPoint(p, false) is a
\* point of the surface of the box at the least distance from p among the
\* surface points; for p strictly inside only the coordinate on the axis of
\* the nearest face changes.
C16_NearestSurfacePoint ==
    SurfaceQueried =>
        /\ OnSurface(res.v)
        /\ \A s \in SurfaceCandidates :
              RLeq(DistanceSquared(res.v, args.p), DistanceSquared(s, args.p))
        /\ StrictlyInside(args.p) =>
              \E axis \in Axes :
                  /\ res.v[axis] # args.p[axis]
                  /\ \A d \in FaceDistances : RLeq(RAbs(RSub(res.v[axis], args.p[axis])), d)
                  /\ \A other \in Axes \ {axis} : res.v[other] = args.p[other]

\* C16 witness: a point strictly inside, nearer to the Max face of Z than
\* to any other face, was moved along Z only
C16_Witness ==
    /\ SurfaceQueried
    /\ StrictlyInside(args.p)
    /\ res.v = [args.p EXCEPT !.Z = QueryBox.Max.Z]
    /\ \A d \in FaceDistances \ {RSub(QueryBox.Max.Z, args.p.Z)} :
          RLess(RSub(QueryBox.Max.Z, args.p.Z), d)

ContainsQueried == args.op = "ContainsPoint" /\ pc = "done" /\ BoxIsValid(heap, args.box)

\* C17: ContainsPoint(p, strict = true) is true only for points strictly
\* inside the box (false on the surface and outside); ContainsPoint(p,
\* strict = false) is true for points inside or on the surface and false
\* only outside.
C17_StrictExcludesSurface ==
    ContainsQueried =>
        res.v = (IF args.strict THEN StrictlyInside(args.p) ELSE InsideOrOn(args.p))

\* what the calls return: the surface counts with strict, not without
ContainsPointSwapped ==
    ContainsQueried =>
        res.v = (IF args.strict THEN InsideOrOn(args.p) ELSE StrictlyInside(args.p))

\* a point of the surface was reported as contained under strict = true
SurfaceContainedStrictly ==
    /\ ContainsQueried
    /\ args.strict
    /\ OnSurface(args.p)
    /\ res.v = TRUE

-----------------------------------------------------------------------------
(* Properties of the Polyline evaluations.                                 *)

\* PointAt(t) has been called on a polyline of at least one point
Evaluated == args.op = "PointAt" /\ pc = "done" /\ Count(args.polyline) >= 1

\* C19: for a polyline with at least one point, PointAt(t) returns the
\* first point for every t < 0 and the last point for every t >= Count - 1;
\* out-of-range parameters never extrapolate beyond the endpoints and never
\* throw.
C19_PointAtClamped ==
    Evaluated =>
        /\ IsOk(res)
        /\ RLess(args.t, RZero) => res.v = args.polyline[1]
        /\ RLeq(R(Count(args.polyline) - 1), args.t) =>
              res.v = args.polyline[Count(args.polyline)]
        /\ \A axis \in Axes :
              \E i, j \in 1..Count(args.polyline) :
                  /\ RLeq(args.polyline[i][axis], res.v[axis])
                  /\ RLeq(res.v[axis], args.polyline[j][axis])

\* C19 witness: a parameter beyond the last segment of a polyline of three
\* distinct points gave the last point
C19_Witness ==
    /\ Evaluated
    /\ Count(args.polyline) = 3
    /\ Cardinality({args.polyline[i] : i \in 1..3}) = 3
    /\ RLess(R(2), args.t)
    /\ res.v = args.polyline[3]


\* two consecutive points of the polyline are equal within epsilon
HasDegenerateSegment(points) ==
    \E i \in 1..(Count(points) - 1) : PointEquals(points[i], points[i + 1])

ClosestQueried == args.op \in {"ClosestParameter", "ClosestPoint"} /\ pc = "done"

\* C20: for a polyline that contains a degenerate segment (two consecutive
\* points equal within epsilon), ClosestParameter and ClosestPoint still
\* return a result for every test point and do not fail.
C20_DegenerateSegmentTolerated ==
    (ClosestQueried /\ HasDegenerateSegment(args.polyline)) => IsOk(res)

\* on a polyline without degenerate segments both calls return, and the
\* point returned is no farther from the test point than any vertex
ClosestOnProperSegments ==
    (ClosestQueried /\ ~HasDegenerateSegment(args.polyline)) =>
        /\ IsOk(res)
        /\ (args.op = "ClosestPoint" /\ Count(args.polyline) >= 2) =>
              \A i \in 1..Count(args.polyline) :
                  RLeq(DistanceSquared(res.v, args.p),
                       DistanceSquared(args.polyline[i], args.p))

\* ClosestParameter has thrown on a polyline that repeats a point
DegenerateSegmentThrown ==
    /\ ClosestQueried
    /\ args.op = "ClosestParameter"
    /\ Count(args.polyline) = 3
    /\ args.polyline[2] = args.polyline[3]
    /\ args.polyline[1] # args.polyline[2]
    /\ res = Thrown


\* the square of the distance of p to segment i (from points[i] to
\* points[i + 1]) of a polyline; a segment whose ends are equal is a point
SegmentDistanceSquared(points, i, p) ==
    IF PointEquals(points[i], points[i + 1])
    THEN DistanceSquared(points[i], p)
    ELSE Let(NewLine(points[i], points[i + 1]), LAMBDA seg :
             DistanceSquared(PointAt(seg, Clamp(ClosestParameter(seg, p, FALSE).v, RZero, ROne)), p))

\* the segments of the polyline that are nearest to p
NearestSegments(points, p) ==
    {i \in 1..(Count(points) - 1) :
        \A j \in 1..(Count(points) - 1) :
            RLeq(SegmentDistanceSquared(points, i, p), SegmentDistanceSquared(points, j, p))}

LeastOf(S) == CHOOSE i \in S : \A j \in S : i <= j

\* ClosestParameter has returned a parameter
ParameterFound ==
    /\ args.op = "ClosestParameter" /\ pc = "done"
    /\ IsOk(res)

\* the parameter returned lies on the lowest-index segment among the
\* nearest ones, at the least distance, and in [0, Count - 1]
OnFirstNearestSegment ==
    /\ Count(args.polyline) >= 1 =>
          RLeq(RZero, res.v) /\ RLeq(res.v, R(Count(args.polyline) - 1))
    /\ Count(args.polyline) >= 2 =>
          LET first == LeastOf(NearestSegments(args.polyline, args.p))
          IN  /\ RLeq(R(first - 1), res.v) /\ RLeq(res.v, R(first))
              /\ DistanceSquared(PolylinePointAt(args.polyline, res.v), args.p)
                    = SegmentDistanceSquared(args.polyline, first, args.p)
              /\ \A i \in NearestSegments(args.polyline, args.p) \ {first} :
                    \/ RLeq(res.v, R(i - 1))
                    \/ res.v = R(first)

\* C21: when several segments of a polyline are at the same minimal
\* distance from the test point, ClosestParameter returns the parameter on
\* the lowest-index such segment, and the returned parameter lies in
\* [0, Count - 1] of a polyline that has points.
C21_FirstNearestSegment ==
    (/\ args.op = "ClosestParameter" /\ pc = "done"
     /\ Count(args.polyline) >= 2
     /\ Cardinality(NearestSegments(args.polyline, args.p)) >= 2) =>
        IsOk(res) /\ OnFirstNearestSegment

\* whenever ClosestParameter returns, the parameter is on the first of the
\* nearest segments: the scan itself breaks ties towards the lower index
FirstNearestWhenReturned == ParameterFound => OnFirstNearestSegment

\* the test point is the point at which a polyline of two segments starts
\* and ends, and the parameter of the start was returned
TieReturnedFirst ==
    /\ ParameterFound
    /\ Count(args.polyline) = 3
    /\ args.polyline[1] = args.polyline[3]
    /\ args.p = args.polyline[1]
    /\ NearestSegments(args.polyline, args.p) = {1, 2}
    /\ res.v = RZero

\* the test point is a point that the polyline repeats: the segment before
\* the repetition and the repetition are both at distance zero, and the
\* call has thrown
TieWithRepeatedPointThrown ==
    /\ args.op = "ClosestParameter" /\ pc = "done"
    /\ Count(args.polyline) = 3
    /\ args.polyline[1] # args.polyline[2]
    /\ args.polyline[2] = args.polyline[3]
    /\ args.p = args.polyline[2]
    /\ NearestSegments(args.polyline, args.p) = {1, 2}
    /\ res = Thrown

-----------------------------------------------------------------------------
(* Frame properties of Vector3d.Transform.                                 *)

\* C27: transforming a vector does not modify the transform: after
\* v.Transform(T) returns, T.M is element for element what it was before
\* the call, so a point transformed with the same T afterwards still
\* receives T's translation.
C27_TransformUnmodified ==
    (args.op = "Transform" /\ IsOk(res.vec)) =>
        /\ heap[args.t].m = args.T
        /\ M(heap, args.t).a = args.T
        /\ IsOk(res.pt) => res.pt.v = PointApply(args.v, args.T)

\* C27 witness: a vector, then a point, went through a transform that
\* translates, and the point was moved by the translation
C27_Witness ==
    /\ args.op = "Transform" /\ pc = "done"
    /\ IsOk(res.vec) /\ IsOk(res.pt)
    /\ TranslationColumn(args.T) # ZeroVector
    /\ heap[args.t].m = args.T
    /\ res.pt.v # res.vec.v

-----------------------------------------------------------------------------
(* Intersection.LineLine and the length of the input segments.             *)

\* two valid, non-parallel lines whose infinite lines meet in one point
LinesMeet(l1, l2) ==
    /\ NotParallelLines(l1, l2)
    /\ ClosestA(l1, l2) = ClosestB(l1, l2)

\* C30: whether LineLine reports an intersection does not depend on how
\* long the input segments are: for two valid, non-parallel lines whose
\* infinite lines meet in one point, LineLine with limitToFiniteSegment =
\* false returns that point, short lines included.
C30_LengthIndependent ==
    (/\ args.op = "LineLine" /\ pc = "done"
     /\ ~args.limit
     /\ LinesMeet(args.l1, args.l2)) =>
        /\ IsOk(res)
        /\ res.v = ClosestA(args.l1, args.l2)

\* both lines have length 0.01 and meet, LineLine answered null; the lines
\* from the same points in the same directions with length 1 are solved
ShortLinesMissed ==
    /\ args.op = "LineLine" /\ pc = "done"
    /\ ~args.limit
    /\ LinesMeet(args.l1, args.l2)
    /\ LineLength(args.l1) = Q(1, 100) /\ LineLength(args.l2) = Q(1, 100)
    /\ res = Null
    /\ LET long(l) == NewLine(l.From, Add(l.From, Multiply(Direction(l), R(100))))
       IN  IsOk(LineLine(long(args.l1), long(args.l2), FALSE, args.distance))

-----------------------------------------------------------------------------
(* The chained Intersect scenario: three valid boxes a, b, c are built and *)
(* intersected as a.Intersect(b).Intersect(c) and a.Intersect(b.Intersect(c)). *)

ChainCorners ==
    { P3(0, 0, 0), P3(1, 1, 1), P3(MaxCoord + 1, MaxCoord + 1, MaxCoord + 1),
      P3(0, 1, 0), P3(-1, 0, 1) }

\* the valid boxes on the corners
ChainBoxes ==
    {b \in [Min : ChainCorners, Max : ChainCorners] :
        RLeq(b.Min.X, b.Max.X) /\ RLeq(b.Min.Y, b.Max.Y) /\ RLeq(b.Min.Z, b.Max.Z)}

InitChain ==
    /\ pc = "ready"
    /\ res = [left |-> None, right |-> None]
    /\ \E aIn \in ChainBoxes, bIn \in ChainBoxes, cIn \in ChainBoxes :
          LET a == NewBoundingBox(<<aIn.Min, aIn.Max, bIn.Min, bIn.Max, cIn.Min, cIn.Max>>, 1, 2)
              b == NewBoundingBox(a.heap, 3, 4)
              c == NewBoundingBox(b.heap, 5, 6)
          IN  /\ heap = c.heap
              /\ args = [op |-> "Chain", a |-> a.box, b |-> b.box, c |-> c.box,
                         aIn |-> aIn, bIn |-> bIn, cIn |-> cIn]

\* a.Intersect(b).Intersect(c)
IntersectLeft ==
    /\ args.op = "Chain" /\ res.left = None
    /\ LET ab == Intersect(heap, args.a, args.b)
           r == Intersect(ab.heap, ab.box, args.c)
       IN  /\ heap' = r.heap
           /\ res' = [res EXCEPT !.left = Ok(r.box)]
    /\ pc' = IF res.right = None THEN "ready" ELSE "done"
    /\ UNCHANGED args

\* a.Intersect(b.Intersect(c))
IntersectRight ==
    /\ args.op = "Chain" /\ res.right = None
    /\ LET bc == Intersect(heap, args.b, args.c)
           r == Intersect(bc.heap, args.a, bc.box)
       IN  /\ heap' = r.heap
           /\ res' = [res EXCEPT !.right = Ok(r.box)]
    /\ pc' = IF res.left = None THEN "ready" ELSE "done"
    /\ UNCHANGED args

NextChain == IntersectLeft \/ IntersectRight

SpecChain == InitChain /\ [][NextChain]_vars

-----------------------------------------------------------------------------
(* Properties of the chained Intersect.                                    *)

\* two valid boxes have no point in common
Disjoint(a, b) ==
    \E axis \in Axes : RLess(a.Max[axis], b.Min[axis]) \/ RLess(b.Max[axis], a.Min[axis])

\* C28: Intersect behaves as set intersection under chaining: for valid
\* boxes a, b, c the boxes Intersect(Intersect(a, b), c) and
\* Intersect(a, Intersect(b, c)) are both invalid or valid with equal Min
\* and Max; if a and b are disjoint, Intersect(Intersect(a, b), c) is
\* invalid for every c.
C28_IntersectChains ==
    /\ (args.op = "Chain" /\ pc = "done") =>
          \/ ~BoxIsValid(heap, res.left.v) /\ ~BoxIsValid(heap, res.right.v)
          \/ /\ BoxIsValid(heap, res.left.v) /\ BoxIsValid(heap, res.right.v)
             /\ BoxValue(heap, res.left.v) = BoxValue(heap, res.right.v)
    /\ (args.op = "Chain" /\ IsOk(res.left) /\ Disjoint(args.aIn, args.bIn)) =>
          ~BoxIsValid(heap, res.left.v)

\* when no two of the three boxes are disjoint the two chains agree on the
\* componentwise intersection
OverlappingChainsAgree ==
    (/\ args.op = "Chain" /\ pc = "done"
     /\ ~Disjoint(args.aIn, args.bIn) /\ ~Disjoint(args.bIn, args.cIn)
     /\ ~Disjoint(args.aIn, args.cIn)) =>
        /\ BoxValue(heap, res.left.v) = BoxValue(heap, res.right.v)
        /\ \A axis \in Axes :
              /\ BoxValue(heap, res.left.v).Min[axis]
                    = RMax(args.aIn.Min[axis], RMax(args.bIn.Min[axis], args.cIn.Min[axis]))
              /\ BoxValue(heap, res.left.v).Max[axis]
                    = RMin(args.aIn.Max[axis], RMin(args.bIn.Max[axis], args.cIn.Max[axis]))

\* a and b are disjoint, yet a.Intersect(b).Intersect(c) is the valid box c
DisjointChainGivesOperand ==
    /\ args.op = "Chain" /\ IsOk(res.left)
    /\ Disjoint(args.aIn, args.bIn)
    /\ BoxIsValid(heap, res.left.v)
    /\ BoxValue(heap, res.left.v) = args.cIn

-----------------------------------------------------------------------------
(* The Line ownership scenario.  The points live on the heap; a line is a  *)
(* record [From, To] of references, as new Line(from, to) stores the       *)
(* points it is given.  The caller makes points p and q, constructs         *)
(* new Line(p, q), may clone it, and writes coordinates.                   *)

\* Line.Clone(): new Line(this.From, this.To)
LineClone(l) == NewLine(l.From, l.To)

\* the From and To points a line designates
LineValue(h, l) == [From |-> h[l.From], To |-> h[l.To]]

InitLine ==
    /\ pc = "ready"
    /\ res = None
    /\ \E p \in Corners, q \in Corners :
          /\ heap = <<p, q>>
          /\ args = [op |-> "Line", p |-> 1, q |-> 2, line |-> NewLine(1, 2),
                     orig |-> [From |-> p, To |-> q], writes |-> 0]

\* line.Clone()
CallLineClone ==
    /\ args.op = "Line" /\ pc = "ready"
    /\ res' = Ok(LineClone(args.line))
    /\ pc' = "cloned"
    /\ UNCHANGED <<args, heap>>

\* clone.From.X = v, ..., clone.To.Z = v
SetCloneCoordinate(end, axis) ==
    /\ args.op = "Line" /\ pc = "cloned" /\ args.writes < MaxWrites
    /\ heap' = [heap EXCEPT ![res.v[end]][axis] = Written]
    /\ args' = [args EXCEPT !.writes = @ + 1]
    /\ UNCHANGED <<pc, res>>

\* p.X = v, ..., q.Z = v after the line was constructed
SetPointCoordinate(point, axis) ==
    /\ args.op = "Line" /\ args.writes < MaxWrites
    /\ heap' = [heap EXCEPT ![args[point]][axis] = Written]
    /\ args' = [args EXCEPT !.writes = @ + 1]
    /\ UNCHANGED <<pc, res>>

NextLine ==
    \/ CallLineClone
    \/ \E end \in {"From", "To"}, axis \in Axes : SetCloneCoordinate(end, axis)
    \/ \E point \in {"p", "q"}, axis \in Axes : SetPointCoordinate(point, axis)

SpecLine == InitLine /\ [][NextLine]_vars

-----------------------------------------------------------------------------
(* Properties of the Line ownership scenario.                              *)

\* C25: a Line produced by Line.Clone(), or constructed from points p and
\* q, shares no mutable state with its source: changing a coordinate of the
\* clone's From or To, or of p or q after construction, leaves the original
\* line's From and To unchanged.
C25_LineNotShared ==
    args.op = "Line" => LineValue(heap, args.line) = args.orig

\* the clone was made and, before any write, designates the same points
CloneEqualsSource ==
    (args.op = "Line" /\ pc = "cloned" /\ args.writes = 0) =>
        LineValue(heap, res.v) = args.orig

\* a coordinate of the clone's From was written and the original line's
\* From has changed with it
CloneWriteReachedSource ==
    /\ args.op = "Line" /\ pc = "cloned"
    /\ args.writes = 1
    /\ LineValue(heap, res.v).From.X = Written
    /\ LineValue(heap, args.line).From.X = Written
    /\ args.orig.From.X # Written
    /\ res.v.From = args.line.From

-----------------------------------------------------------------------------
(* Polyline.DeleteShortSegments and Polyline.Smooth.                       *)

\* Polyline.Last and Polyline.IsClosed
Last(points) == points[Count(points)]
IsClosed(points) == Count(points) > 2 /\ PointEquals(First(points), Last(points))

\* a.DistanceTo(b) <= tolerance, decided on the squares
WithinTolerance(a, b, tolerance) ==
    /\ RLeq(RZero, tolerance)
    /\ RLeq(DistanceSquared(a, b), RMul(tolerance, tolerance))

\* an element of an array that was never assigned
Undefined == [kind |-> "undefined"]

\* the first loop of DeleteShortSegments from index i on: j is the last
\* point kept so far, map the inclusion map
RECURSIVE ForwardMap(_, _, _, _, _)
ForwardMap(points, tolerance, i, j, map) ==
    IF i >= Count(points) - 1 THEN map
    ELSE IF WithinTolerance(Get(points, i), Get(points, j), tolerance)
         THEN ForwardMap(points, tolerance, i + 1, j, [map EXCEPT ![i] = FALSE])
         ELSE ForwardMap(points, tolerance, i + 1, i, [map EXCEPT ![i] = TRUE])

\* the second loop, from index i down: kept points too close to the last
\* point are dropped until one is far enough
RECURSIVE BackwardMap(_, _, _, _)
BackwardMap(points, tolerance, i, map) ==
    IF i <= 0 THEN map
    ELSE IF map[i]
         THEN IF WithinTolerance(Get(points, i), Get(points, Count(points) - 1), tolerance)
              THEN BackwardMap(points, tolerance, i - 1, [map EXCEPT ![i] = FALSE])
              ELSE map
         ELSE BackwardMap(points, tolerance, i - 1, map)

\* the third loop: pts is an array of length count, pts[N++] = Get(i) for
\* every i the map includes; the other elements stay unassigned
RECURSIVE Collect(_, _, _, _, _)
Collect(points, map, i, pts, N) ==
    IF i >= Count(points) THEN pts
    ELSE IF map[i]
         THEN Collect(points, map, i + 1, [pts EXCEPT ![N + 1] = Get(points, i)], N + 1)
         ELSE Collect(points, map, i + 1, pts, N)

\* Polyline.DeleteShortSegments(tolerance): the items of the new polyline
DeleteShortSegments(points, tolerance) ==
    LET count == Count(points)
    IN  IF count < 3 THEN points
        ELSE Let(BackwardMap(points, tolerance, count - 2,
                     ForwardMap(points, tolerance, 1, 0,
                         [i \in 0..(count - 1) |-> i = 0 \/ i = count - 1])),
                 LAMBDA map :
                 Collect(points, map, 0, [i \in 1..count |-> Undefined], 0))

\* the static Polyline.Smooth(v0, v1, v2, amount), one coordinate
SmoothCoordinate(c0, c1, c2, amount) ==
    Let(RMul(Q(1, 2), RAdd(c0, c2)), LAMBDA x :
        IF x = c1 THEN x ELSE RAdd(c1, RMul(amount, RSub(x, c1))))

\* the static Polyline.Smooth(v0, v1, v2, amount)
SmoothPoint(v0, v1, v2, amount) ==
    XYZ(SmoothCoordinate(v0.X, v1.X, v2.X, amount),
        SmoothCoordinate(v0.Y, v1.Y, v2.Y, amount),
        SmoothCoordinate(v0.Z, v1.Z, v2.Z, amount))

\* the end points are never smoothed
PolylineSmooth_KeepEnds(points, amount) ==
    LET count == Count(points)
        N == count - 1
        half == RMul(amount, Q(1, 2))
    IN  IF count < 3 THEN Null
        ELSE Ok([k \in 1..count |->
                    IF k = 1 \/ k = count THEN points[k]
                    ELSE SmoothPoint(points[k - 1], points[k], points[k + 1], half)])

\* Polyline.Smooth(amount): the items of the new polyline, or null
PolylineSmooth(points, amount) ==
    LET count == Count(points)
        N == count - 1
        half == RMul(amount, Q(1, 2))
        v0 == IF IsClosed(points)
              THEN SmoothPoint(Get(points, N - 1), Get(points, 0), Get(points, 1), half)
              ELSE Get(points, 0)
        vN == IF IsClosed(points) THEN v0 ELSE Get(points, N)
    IN  IF count < 3 THEN Null
        ELSE Ok([k \in 1..count |->
                    IF k = 1 THEN v0
                    ELSE IF k = count THEN vN
                    ELSE SmoothPoint(Get(points, k - 2), Get(points, k - 1), Get(points, k), half)])

-----------------------------------------------------------------------------
(* The polyline editing scenarios: one call of DeleteShortSegments or of   *)
(* Smooth on a polyline.                                                   *)

EditPoints == {P3(0, 0, 0), XYZ(Q(1, 2), RZero, RZero), P3(1, 0, 0), P3(1, MaxCoord, 0)}

EditPolylines == SeqsUpTo(EditPoints, MaxList + 1)

Tolerances == {R(-1), RZero, Q(1, 2), ROne}

Amounts == {RZero, Q(1, 2), ROne, R(2)}

InitEdit ==
    /\ pc = "ready"
    /\ res = None
    /\ heap = <<>>
    /\ \E pl \in EditPolylines :
          \/ \E tolerance \in Tolerances :
                args = [op |-> "DeleteShortSegments", polyline |-> pl, tolerance |-> tolerance]
          \/ \E amount \in Amounts :
                args = [op |-> "Smooth", polyline |-> pl, amount |-> amount]

\* polyline.DeleteShortSegments(tolerance)
CallDeleteShortSegments ==
    /\ args.op = "DeleteShortSegments" /\ pc = "ready"
    /\ res' = Ok(DeleteShortSegments(args.polyline, args.tolerance))
    /\ pc' = "done"
    /\ UNCHANGED <<args, heap>>

\* polyline.Smooth(amount)
CallSmooth ==
    /\ args.op = "Smooth" /\ pc = "ready"
    /\ res' = PolylineSmooth(args.polyline, args.amount)
    /\ pc' = "done"
    /\ UNCHANGED <<args, heap>>

NextEdit == CallDeleteShortSegments \/ CallSmooth

SpecEdit == InitEdit /\ [][NextEdit]_vars


-----------------------------------------------------------------------------
(* Properties of DeleteShortSegments and Smooth.                           *)

\* r is s with some elements left out
RECURSIVE IsSubsequenceFrom(_, _, _, _)
IsSubsequenceFrom(r, s, i, j) ==
    IF i > Len(r) THEN TRUE
    ELSE IF j > Len(s) THEN FALSE
    ELSE IF r[i] = s[j] THEN IsSubsequenceFrom(r, s, i + 1, j + 1)
    ELSE IsSubsequenceFrom(r, s, i, j + 1)
IsSubsequence(r, s) == IsSubsequenceFrom(r, s, 1, 1)

\* DeleteShortSegments has been called on a polyline that has points
Deleted ==
    /\ args.op = "DeleteShortSegments" /\ pc = "done"
    /\ Count(args.polyline) >= 1

\* the points among the items of the result
Kept == SelectSeq(res.v, LAMBDA p : p # Undefined)

\* C23: for every polyline and every tolerance, the result of
\* DeleteShortSegments(tolerance) starts with the original first point,
\* ends with the original last point, and consists of a subsequence of the
\* original points in their original order.
C23_EndsKeptInOrder ==
    Deleted =>
        /\ First(res.v) = First(args.polyline)
        /\ Last(res.v) = Last(args.polyline)
        /\ IsSubsequence(res.v, args.polyline)

\* the same statement on the points of the result, its unassigned items
\* left aside
KeptEndsInOrder ==
    Deleted =>
        /\ First(Kept) = First(args.polyline)
        /\ Last(Kept) = Last(args.polyline)
        /\ IsSubsequence(Kept, args.polyline)
        /\ Count(args.polyline) < 3 => res.v = args.polyline

\* a point was left out and the result, as long as the original, ends with
\* an unassigned item
DeletionLeavesHole ==
    /\ Deleted
    /\ Count(res.v) = Count(args.polyline)
    /\ Count(Kept) < Count(args.polyline)
    /\ Last(res.v) = Undefined

\* C26: for a polyline with at least 3 points, in the result of
\* DeleteShortSegments(tolerance) every two consecutive points are more
\* than tolerance apart, except possibly when the result consists of only
\* the original first and last points.
C26_ConsecutiveApart ==
    (Deleted /\ Count(args.polyline) >= 3) =>
        \/ res.v = <<First(args.polyline), Last(args.polyline)>>
        \/ \A i \in 1..(Count(res.v) - 1) :
              /\ res.v[i] # Undefined /\ res.v[i + 1] # Undefined
              /\ ~WithinTolerance(res.v[i], res.v[i + 1], args.tolerance)

\* the same statement on the points of the result, its unassigned items
\* left aside
KeptConsecutiveApart ==
    (Deleted /\ Count(args.polyline) >= 3) =>
        \/ Kept = <<First(args.polyline), Last(args.polyline)>>
        \/ \A i \in 1..(Count(Kept) - 1) :
              ~WithinTolerance(Kept[i], Kept[i + 1], args.tolerance)

\* an inner point was left out, at least three points were kept, and the
\* last point of the result is followed by an unassigned item
HoleAfterLastPoint ==
    /\ Deleted
    /\ Count(Kept) >= 3
    /\ Count(Kept) < Count(res.v)
    /\ res.v[Count(Kept)] = Last(args.polyline)
    /\ res.v[Count(Kept) + 1] = Undefined

\* Smooth has been called on a polyline of at least three points
Smoothed == args.op = "Smooth" /\ pc = "done" /\ Count(args.polyline) >= 3

\* v1 moved by amount / 2 towards the midpoint of v0 and v2
TowardsMidpoint(v0, v1, v2, amount) ==
    Add(v1, Multiply(SubtractPoint(Multiply(Add(v0, v2), Q(1, 2)), v1), RMul(amount, Q(1, 2))))

\* C24: Smooth(amount) returns null for fewer than 3 points; otherwise it
\* returns a polyline with the same number of points in which, if the
\* input is open, the first and last points are unchanged, and, if the
\* input is closed, the first and last points are both replaced by the same
\* point smoothed from the wraparound neighbours (second-to-last and second
\* point), so a closed polyline stays closed.
C24_SmoothEnds ==
    /\ (args.op = "Smooth" /\ pc = "done" /\ Count(args.polyline) < 3) => res = Null
    /\ Smoothed =>
          /\ IsOk(res)
          /\ Count(res.v) = Count(args.polyline)
          /\ ~IsClosed(args.polyline) =>
                /\ First(res.v) = First(args.polyline)
                /\ Last(res.v) = Last(args.polyline)
          /\ IsClosed(args.polyline) =>
                /\ First(res.v) = TowardsMidpoint(
                        args.polyline[Count(args.polyline) - 1], First(args.polyline),
                        args.polyline[2], args.amount)
                /\ Last(res.v) = First(res.v)
                /\ IsClosed(res.v)

\* C24 witness: a closed polyline of four points was smoothed and its
\* first and last points have moved to one new point
C24_Witness ==
    /\ Smoothed
    /\ Count(args.polyline) = 4
    /\ IsClosed(args.polyline)
    /\ First(res.v) # First(args.polyline)
    /\ Last(res.v) = First(res.v)

-----------------------------------------------------------------------------
(* Polyline: planarity, area and containment.  Plane.CreateFrom3Points and *)
(* the tolerance of Plane.IsPointCoplanar, which Polyline calls, follow    *)
(* the description of IsPlanar/TryGetPlane and of IsPointCoplanar.         *)

\* Plane.CreateFrom3Points(p0, p1, p2): CreateFromNormal at p0 with the
\* cross product of p1 - p0 and p2 - p0; three collinear points have a zero
\* cross product, which Unitize refuses
CreateFrom3Points(p0, p1, p2) ==
    CreateFromNormal(p0, CrossProduct(SubtractPoint(p1, p0), SubtractPoint(p2, p0)))

\* Plane.IsPointCoplanar(point, tolerance): the projection of the point on
\* the plane is equal to the point, per coordinate, within the tolerance
IsPointCoplanar(pl, point, tolerance) ==
    Let(PlaneClosestPoint(pl, point), LAMBDA closest :
        IF closest = Thrown THEN Thrown
        ELSE Ok(/\ EpsilonEquals(closest.v.X, point.X, tolerance)
                /\ EpsilonEquals(closest.v.Y, point.Y, tolerance)
                /\ EpsilonEquals(closest.v.Z, point.Z, tolerance)))

\* Polyline.IsPlanar(tolerance): false below three points; else every point
\* from the fourth on is coplanar with the plane of the first three
IsPlanar(points, tolerance) ==
    IF Count(points) < 3 THEN Ok(FALSE)
    ELSE Let(CreateFrom3Points(Get(points, 0), Get(points, 1), Get(points, 2)), LAMBDA plane :
             IF plane = Thrown THEN Thrown
             ELSE Ok(\A i \in 3..(Count(points) - 1) :
                        IsPointCoplanar(plane, Get(points, i), tolerance).v))

\* Polyline.TryGetPlane(tolerance): the plane of the first three points of a
\* planar polyline, else null
TryGetPlane(points, tolerance) ==
    Let(IsPlanar(points, tolerance), LAMBDA planar :
        IF planar = Thrown THEN Thrown
        ELSE IF planar.v
             THEN Ok(CreateFrom3Points(Get(points, 0), Get(points, 1), Get(points, 2)))
             ELSE Null)

\* Plane.PlaneXY
PlaneXY == NewPlane(Origin, XYZ(ROne, RZero, RZero), XYZ(RZero, ROne, RZero))

\* Transform.worldXYToFrame(origin, xAxis, yAxis, zAxis)
worldXYToFrame(origin, xAxis, yAxis, zAxis) ==
    <<xAxis.X, yAxis.X, zAxis.X, origin.X,
      xAxis.Y, yAxis.Y, zAxis.Y, origin.Y,
      xAxis.Z, yAxis.Z, zAxis.Z, origin.Z,
      RZero, RZero, RZero, ROne>>

\* Transform.frameToFramePoint: the coordinates of the point in frame 1,
\* laid out in frame 2
frameToFramePoint(origin1, xAxis1, yAxis1, zAxis1, origin2, xAxis2, yAxis2, zAxis2, point) ==
    Let(SubtractPoint(point, origin1), LAMBDA locP :
        Let3(DotProduct(locP, xAxis1), DotProduct(locP, yAxis1), DotProduct(locP, zAxis1),
             LAMBDA xT, yT, zT :
             Add(Add(Add(origin2, Multiply(xAxis2, xT)), Multiply(yAxis2, yT)),
                 Multiply(zAxis2, zT))))

\* Transform.frameToFrame: the images of the world origin and of the three
\* unit points, as a worldXYToFrame matrix
frameToFrame(origin1, xAxis1, yAxis1, zAxis1, origin2, xAxis2, yAxis2, zAxis2) ==
    LET Image(point) == frameToFramePoint(origin1, xAxis1, yAxis1, zAxis1,
                                          origin2, xAxis2, yAxis2, zAxis2, point)
    IN  Let(Image(XYZ(RZero, RZero, RZero)), LAMBDA o :
            worldXYToFrame(o,
                           SubtractPoint(Image(XYZ(ROne, RZero, RZero)), o),
                           SubtractPoint(Image(XYZ(RZero, ROne, RZero)), o),
                           SubtractPoint(Image(XYZ(RZero, RZero, ROne)), o)))

\* Transform.PlaneToPlane(fromPlane, toPlane)
PlaneToPlane(fromPlane, toPlane) ==
    frameToFrame(fromPlane.Origin, fromPlane.XAxis, fromPlane.YAxis, fromPlane.ZAxis,
                 toPlane.Origin, toPlane.XAxis, toPlane.YAxis, toPlane.ZAxis)

\* Polyline.Transform(transformation): every point transformed
PolylineTransform(points, m) == [i \in 1..Count(points) |-> PointApply(points[i], m)]

\* Polyline.SignedPolygonArea(polyline): half the sum of
\* p1.X * p2.Y - p2.X * p1.Y over the points and their successors, the last
\* point being followed by the first
RECURSIVE AreaSum(_, _)
AreaSum(points, i) ==
    IF i >= Count(points) THEN RZero
    ELSE Let2(Get(points, i), Get(points, (i + 1) % Count(points)), LAMBDA p1, p2 :
              RAdd(RSub(RMul(p1.X, p2.Y), RMul(p2.X, p1.Y)), AreaSum(points, i + 1)))

SignedPolygonArea(points) == RMul(AreaSum(points, 0), Q(1, 2))

\* Polyline.TryGetArea(tolerance): the guard asks IsPlanar() with its
\* default tolerance, the plane is asked for with the tolerance supplied; a
\* null plane is dereferenced by PlaneToPlane
TryGetArea(points, tolerance) ==
    Let(IsPlanar(points, EPSILON), LAMBDA planar :
        IF planar = Thrown THEN Thrown
        ELSE IF planar.v /\ IsClosed(points)
             THEN Let(TryGetPlane(points, tolerance), LAMBDA plane :
                      IF plane = Thrown \/ plane = Null THEN Thrown
                      ELSE Ok(RAbs(SignedPolygonArea(
                                  PolylineTransform(points, PlaneToPlane(plane.v, PlaneXY))))))
             ELSE Null)

\* Line.LinePointClosestParameter(line, point): 0 on an invalid line
LinePointClosestParameter(line, point) ==
    IF ~LineIsValid(line) THEN RZero
    ELSE Let2(SubtractPoint(point, line.From), SubtractPoint(line.To, line.From),
              LAMBDA startToP, startToEnd :
              RDiv(DotProduct(startToEnd, startToP), DotProduct(startToEnd, startToEnd)))

\* Line.LinePointClosestPoint(line, point, limitToFiniteSegment); PointAt
\* throws on an invalid line
LinePointClosestPoint(line, point, limitToFiniteSegment) ==
    Let(LinePointClosestParameter(line, point), LAMBDA t :
        IF ~LineIsValid(line) THEN Thrown
        ELSE Ok(PointAt(line, IF limitToFiniteSegment THEN Clamp(t, RZero, ROne) ELSE t)))

\* d <= tolerance for a distance d given by its square d2
SquareAtMost(d2, tolerance) ==
    IF RLess(tolerance, RZero) THEN FALSE
    ELSE IF tolerance = RZero THEN d2 = RZero
    ELSE RLeq(RDiv(d2, tolerance), tolerance)

\* Line.IsPointOn(point, limitToFiniteSegment, tolerance):
\* DistanceTo(point, limitToFiniteSegment) <= tolerance
LineIsPointOn(line, point, limitToFiniteSegment, tolerance) ==
    Let(LinePointClosestPoint(line, point, limitToFiniteSegment), LAMBDA closestPoint :
        IF closestPoint = Thrown THEN Thrown
        ELSE Ok(SquareAtMost(DistanceSquared(point, closestPoint.v), tolerance)))

\* the loop of Polyline.IsPointOn from segment i on
RECURSIVE IsPointOnLoop(_, _, _, _)
IsPointOnLoop(points, point, tolerance, i) ==
    IF i >= Count(points) - 1 THEN Ok(FALSE)
    ELSE Let(LineIsPointOn(NewLine(Get(points, i), Get(points, i + 1)), point, TRUE, tolerance),
             LAMBDA on :
             IF on = Thrown THEN Thrown
             ELSE IF on.v THEN Ok(TRUE)
             ELSE IsPointOnLoop(points, point, tolerance, i + 1))

\* Polyline.IsPointOn(point, tolerance)
PolylineIsPointOn(points, point, tolerance) ==
    IF Count(points) < 2 THEN Ok(FALSE) ELSE IsPointOnLoop(points, point, tolerance, 0)

\* the test of Polyline.IsPointInside2D on the edge from point j to point i
Crosses(points, point, i, j) ==
    Let2(Get(points, i), Get(points, j), LAMBDA pi, pj :
         /\ RLess(point.Y, pi.Y) # RLess(point.Y, pj.Y)
         /\ RLess(point.X,
                  RAdd(RDiv(RMul(RSub(pj.X, pi.X), RSub(point.Y, pi.Y)), RSub(pj.Y, pi.Y)),
                       pi.X)))

\* Polyline.IsPointInside2D(point): inside is inverted once per edge crossed
\* by the ray, each point i being taken with the point before it (the last
\* point for i = 0)
IsPointInside2D(points, point) ==
    Cardinality({i \in 0..(Count(points) - 1) :
                    Crosses(points, point, i, (i + Count(points) - 1) % Count(points))}) % 2 = 1

\* Polyline.IsPointInside(point, tolerance)
PolylineIsPointInside(points, point, tolerance) ==
    IF ~IsClosed(points) THEN Thrown
    ELSE Let(IsPlanar(points, tolerance), LAMBDA planar :
         IF planar = Thrown THEN Thrown
         ELSE IF ~planar.v THEN Thrown
         ELSE Let(PolylineIsPointOn(points, point, tolerance), LAMBDA on :
              IF on = Thrown THEN Thrown
              ELSE IF on.v THEN Ok(FALSE)
              ELSE Let(TryGetPlane(points, tolerance).v, LAMBDA plane :
                   IF ~IsPointCoplanar(plane, point, tolerance).v THEN Ok(FALSE)
                   ELSE Let(PlaneToPlane(plane, PlaneXY), LAMBDA orient :
                            Ok(IsPointInside2D(PolylineTransform(points, orient),
                                               PointApply(point, orient)))))))

-----------------------------------------------------------------------------
(* The region scenarios: one call of TryGetArea or of IsPointInside on a   *)
(* polyline of up to five points.  The first three points are corners of a *)
(* square in the plane z = 0, so that their plane has a normal of rational *)
(* length; a fourth point may be lifted off that plane.                    *)

RegionCorners == {P3(0, 0, 0), P3(2, 0, 0), P3(2, 2, 0), P3(0, 2, 0)}

\* the corner (0, 2, 0) lifted by less than EPSILON, and by 1/2
SlightlyLifted == XYZ(RZero, R(2), Q(1, 2000000))
Lifted == XYZ(RZero, R(2), Q(1, 2))

RegionPolylines(lifted) ==
    SeqsUpTo(RegionCorners, 4)
        \cup {<<a, b, c, d, a>> : a \in RegionCorners, b \in RegionCorners,
                                  c \in RegionCorners, d \in RegionCorners \cup lifted}

AreaTolerances == {Q(1, 10000000), EPSILON, ROne}

InsideTolerances == {EPSILON, ROne}

\* inside the square, on an edge, outside, and above the inside
RegionTestPoints == {P3(1, 1, 0), P3(1, 0, 0), P3(3, 1, 0), XYZ(ROne, ROne, Q(1, 2))}

InitRegion ==
    /\ pc = "ready"
    /\ res = None
    /\ heap = <<>>
    /\ \/ \E pl \in RegionPolylines({SlightlyLifted, Lifted}), tolerance \in AreaTolerances :
             args = [op |-> "TryGetArea", polyline |-> pl, tolerance |-> tolerance]
       \/ \E pl \in RegionPolylines({Lifted}), p \in RegionTestPoints,
             tolerance \in InsideTolerances :
             args = [op |-> "IsPointInside", polyline |-> pl, p |-> p, tolerance |-> tolerance]

\* polyline.TryGetArea(tolerance)
CallTryGetArea ==
    /\ args.op = "TryGetArea" /\ pc = "ready"
    /\ res' = TryGetArea(args.polyline, args.tolerance)
    /\ pc' = "done"
    /\ UNCHANGED <<args, heap>>

\* polyline.IsPointInside(p, tolerance)
CallIsPointInside ==
    /\ args.op = "IsPointInside" /\ pc = "ready"
    /\ res' = PolylineIsPointInside(args.polyline, args.p, args.tolerance)
    /\ pc' = "done"
    /\ UNCHANGED <<args, heap>>

NextRegion == CallTryGetArea \/ CallIsPointInside

SpecRegion == InitRegion /\ [][NextRegion]_vars

-----------------------------------------------------------------------------
(* Properties of TryGetArea and IsPointInside.                             *)

\* the planarity decision of TryGetPlane(tolerance): it returns a plane
PlanarWithin(points, tolerance) ==
    Let(TryGetPlane(points, tolerance), LAMBDA plane : plane # Thrown /\ plane # Null)

AreaQueried == args.op = "TryGetArea" /\ pc = "done"

\* a non-negative number exactly for the closed polylines that are planar
\* within the tolerance, null for the others
AreaDecided ==
    IF IsClosed(args.polyline) /\ PlanarWithin(args.polyline, args.tolerance)
    THEN IsOk(res) /\ RLeq(RZero, res.v)
    ELSE res = Null

\* C29: for every polyline and every tolerance, TryGetArea(tolerance) does
\* not throw; it returns a non-negative number exactly when the polyline is
\* closed and planar within the supplied tolerance, by the planarity
\* decision of TryGetPlane(tolerance), and null otherwise.
C29_AreaNeverThrows ==
    AreaQueried => (res # Thrown /\ AreaDecided)

\* where the first three points span a plane and the default tolerance and
\* the supplied one decide planarity alike, the area is as claimed
AreaWhenDecisionsAgree ==
    (/\ AreaQueried
     /\ IsPlanar(args.polyline, EPSILON) # Thrown
     /\ IsPlanar(args.polyline, EPSILON) = IsPlanar(args.polyline, args.tolerance)) =>
        (res # Thrown /\ AreaDecided)

\* the square of side 2 has area 4
SquareArea ==
    /\ AreaQueried
    /\ args.polyline = <<P3(0, 0, 0), P3(2, 0, 0), P3(2, 2, 0), P3(0, 2, 0), P3(0, 0, 0)>>
    /\ args.tolerance = EPSILON
    /\ res = Ok(R(4))

\* a closed polyline that is planar within the default tolerance but not
\* within the smaller one supplied: TryGetPlane(tolerance) is null and
\* TryGetArea has thrown
AreaThrownOnNullPlane ==
    /\ AreaQueried
    /\ IsClosed(args.polyline)
    /\ IsPlanar(args.polyline, EPSILON) = Ok(TRUE)
    /\ RLess(args.tolerance, EPSILON)
    /\ TryGetPlane(args.polyline, args.tolerance) = Null
    /\ res = Thrown

\* a closed polyline that is planar within the larger tolerance supplied but
\* not within the default one: null is returned instead of the area
AreaNullThoughPlanar ==
    /\ AreaQueried
    /\ IsClosed(args.polyline)
    /\ PlanarWithin(args.polyline, args.tolerance)
    /\ IsPlanar(args.polyline, EPSILON) = Ok(FALSE)
    /\ res = Null

\* the first three points are collinear and TryGetArea has thrown
AreaThrownOnCollinear ==
    /\ AreaQueried
    /\ Count(args.polyline) >= 3
    /\ IsPlanar(args.polyline, EPSILON) = Thrown
    /\ res = Thrown

InsideQueried == args.op = "IsPointInside" /\ pc = "done"

\* the point is within the tolerance of a segment of the polyline
OnBoundary(points, p, tolerance) ==
    \E i \in 1..(Count(points) - 1) :
        SquareAtMost(SegmentDistanceSquared(points, i, p), tolerance)

\* the point is not coplanar, within the tolerance, with the plane of a
\* planar polyline
OffPlane(points, p, tolerance) ==
    ~IsPointCoplanar(TryGetPlane(points, tolerance).v, p, tolerance).v

\* an error for a polyline that is not closed or not planar, false for a
\* point on the boundary or off the plane of a closed planar polyline
InsideDecided ==
    IF ~IsClosed(args.polyline) \/ ~PlanarWithin(args.polyline, args.tolerance)
    THEN res = Thrown
    ELSE (\/ OnBoundary(args.polyline, args.p, args.tolerance)
          \/ OffPlane(args.polyline, args.p, args.tolerance)) => res = Ok(FALSE)

\* C22: IsPointInside throws, and does not return false, for every test
\* point whenever the polyline is not closed or is not planar within the
\* tolerance; on a closed planar polyline a point on the boundary and a
\* point off the plane of the polyline both give false.
C22_InsideContract == InsideQueried => InsideDecided

\* on the polylines that repeat no point the contract holds
InsideContractOnProperSegments ==
    (InsideQueried /\ ~HasDegenerateSegment(args.polyline)) => InsideDecided

\* an open polyline has thrown
OpenPolylineThrown ==
    /\ InsideQueried
    /\ ~IsClosed(args.polyline)
    /\ Count(args.polyline) = 4
    /\ res = Thrown

\* a closed polyline with a point lifted off the plane of the first three
\* has thrown
LiftedPolylineThrown ==
    /\ InsideQueried
    /\ IsClosed(args.polyline)
    /\ IsPlanar(args.polyline, args.tolerance) = Ok(FALSE)
    /\ res = Thrown

\* the point on an edge of the square, and the point above the square, are
\* not inside; the centre is
SquareDecided ==
    /\ InsideQueried
    /\ args.polyline = <<P3(0, 0, 0), P3(2, 0, 0), P3(2, 2, 0), P3(0, 2, 0), P3(0, 0, 0)>>
    /\ args.tolerance = EPSILON
    /\ \/ args.p = P3(1, 0, 0) /\ res = Ok(FALSE)
          /\ OnBoundary(args.polyline, args.p, args.tolerance)
       \/ args.p = XYZ(ROne, ROne, Q(1, 2)) /\ res = Ok(FALSE)
          /\ OffPlane(args.polyline, args.p, args.tolerance)

SquareCentreInside ==
    /\ InsideQueried
    /\ args.polyline = <<P3(0, 0, 0), P3(2, 0, 0), P3(2, 2, 0), P3(0, 2, 0), P3(0, 0, 0)>>
    /\ args.p = P3(1, 1, 0)
    /\ res = Ok(TRUE)

\* a closed planar polyline that repeats a corner, and a point off its
\* plane: the call has thrown
InsideThrownOnRepeatedPoint ==
    /\ InsideQueried
    /\ IsClosed(args.polyline)
    /\ PlanarWithin(args.polyline, args.tolerance)
    /\ HasDegenerateSegment(args.polyline)
    /\ OffPlane(args.polyline, args.p, args.tolerance)
    /\ res = Thrown

=============================================================================
